---- MODULE Spec2Model ----
(***************************************************************************)
(* Model of the VirSat5 FreeCAD satellite importer: the crawler/resolver   *)
(* (workbench/crawler.py) and the two document importers                   *)
(* (workbench/SatelliteImporter.py and                                     *)
(* freecad/Mod/SatelliteWorkbench/SatelliteImporter.py).                   *)
(*                                                                         *)
(* JSON scalars are records [t, v]: t = "num" is the JSON number v,        *)
(* t = "str" is the JSON string whose text is the decimal numeral of v     *)
(* (v = NoneText is the text "None"), t = "null" is JSON null and          *)
(* t = "absent" says that the key is missing from its object.              *)
(* Property values are records [k, n, s]: k = "num" a number n,            *)
(* k = "numtxt" a string holding the numeral n, k = "txt" the string s.    *)
(* k = "float" a Python float of n thousandths.                            *)
(***************************************************************************)
EXTENDS Integers, Sequences, FiniteSets, TLC

VARIABLES
    entities,     \* the entity list of the project
    categories,   \* the category list of the project
    entity_types, \* the entity type list of the project
    failing,      \* the endpoints whose fetch failed in the last run
    query,        \* the id the last call was made on
    result,       \* what that call returned
    walk,         \* the loop state of a category-chain walk
    impl,         \* the workbench in use: "workbench" or "freecad"
    doc,          \* the FreeCAD document
    snapshot,     \* what the crawler returned to the last command, while
                  \* the project is as that command fetched it
    report,       \* the message box and the counts of that command
    API_SESSION,  \* the global API_SESSION of each module
    logins        \* the sessions created so far, each module's latest login
                  \* and what the last get_auth_session call did

server == <<entities, categories, entity_types>>
auth == <<API_SESSION, logins>>
host == <<impl, doc, snapshot, report, auth>>

vars == <<entities, categories, entity_types, failing, query, result, walk,
          impl, doc, snapshot, report, API_SESSION, logins>>

\* the modules with a global API_SESSION and a get_auth_session of their own
AuthModules == {"crawler", "workbench", "freecad"}

\* a requests.Session: id is the number of the object (0 for None), token
\* whether a login on it was answered with an access token
Session(id, token) == [id |-> id, token |-> token]
None == Session(0, FALSE)

\* "API_SESSION = None" at module load, no call made
NoAuth ==
    /\ API_SESSION = [m \in AuthModules |-> None]
    /\ logins = [made |-> 0, latest |-> [m \in AuthModules |-> "none"],
                 module |-> "", posted |-> FALSE, returned |-> None]

\* no workbench runs and no document is open
NoDocument == impl = "" /\ doc = <<>> /\ snapshot = <<>> /\ report = <<>>
NoHost == NoDocument /\ NoAuth

-----------------------------------------------------------------------------
(* JSON scalars and Python's str()                                         *)

NoneText == 0
EmptyText == -1

JNum(n) == [t |-> "num", v |-> n]
JStr(n) == [t |-> "str", v |-> n]
JNull == [t |-> "null", v |-> 0]
JAbsent == [t |-> "absent", v |-> 0]

\* str(x): a number becomes its numeral, None becomes the text "None"
Str(x) == IF x.t = "null" THEN JStr(NoneText) ELSE JStr(x.v)

\* str(d.get(key, '')): a missing key gives the empty text
StrGet(x) == IF x.t = "absent" THEN JStr(EmptyText) ELSE Str(x)

\* bool(x) of a scalar read with dict.get or after an "in" test
Truthy(x) ==
    CASE x.t = "absent" -> FALSE
      [] x.t = "null" -> FALSE
      [] x.t = "num" -> x.v # 0
      [] OTHER -> x.v # EmptyText

\* the decimal digits of a numeral, most significant first
RECURSIVE Digits(_)
Digits(n) == IF n < 10 THEN <<n>> ELSE Append(Digits(n \div 10), n % 10)

\* a < b for two Python strings holding numerals (character order)
RECURSIVE SeqLess(_, _)
SeqLess(a, b) ==
    IF a = <<>> THEN b # <<>>
    ELSE IF b = <<>> THEN FALSE
    ELSE IF Head(a) # Head(b) THEN Head(a) < Head(b)
    ELSE SeqLess(Tail(a), Tail(b))

\* x < y as Python compares two ids of the same type
IdLess(x, y) ==
    IF x.t = "num" THEN x.v < y.v ELSE SeqLess(Digits(x.v), Digits(y.v))

-----------------------------------------------------------------------------
(* Property values                                                         *)

Num(n) == [k |-> "num", n |-> n, s |-> ""]
NumTxt(n) == [k |-> "numtxt", n |-> n, s |-> ""]
Txt(s) == [k |-> "txt", n |-> 0, s |-> s]
Flt(m) == [k |-> "float", n |-> m, s |-> ""]

IsNumeric(val) == val.k \in {"num", "numtxt"}

Max(a, b) == IF a > b THEN a ELSE b
Min(a, b) == IF a < b THEN a ELSE b

\* a conversion without the clamp
ClampTransparency_Unclamped(val) == IF IsNumeric(val) THEN Num(val.n) ELSE Num(0)

\* crawler.py 135-141: float(), clamp to 0..100, 0.0 when float() raises
ClampTransparency(val) ==
    IF IsNumeric(val) THEN Num(Max(0, Min(100, val.n))) ELSE Num(0)

\* a merge in which the left operand wins
DictMerge_LeftWins(a, b) ==
    [k \in (DOMAIN a) \cup (DOMAIN b) |-> IF k \in DOMAIN a THEN a[k] ELSE b[k]]

\* {**a, **b}
DictMerge(a, b) ==
    [k \in (DOMAIN a) \cup (DOMAIN b) |-> IF k \in DOMAIN b THEN b[k] ELSE a[k]]

EmptyDict == [k \in {} |-> Num(0)]

\* str.lower() on the category names of the model
Lower(s) ==
    CASE s = "Visualization" -> "visualization"
      [] s = "Geometry" -> "geometry"
      [] OTHER -> s

-----------------------------------------------------------------------------
(* extract_visualization: the category-chain walk (crawler.py 110-150)     *)

\* category_map[id]: the dict comprehension keeps the last category of an id
RECURSIVE CategoryMapGet(_, _)
CategoryMapGet(cats, id) ==
    IF cats = <<>> THEN <<>>
    ELSE LET last == cats[Len(cats)]
         IN IF last.id = id THEN <<last>>
            ELSE CategoryMapGet(SubSeq(cats, 1, Len(cats) - 1), id)

\* a merge in which every category overwrites what is present
RECURSIVE MergeProperties_Overwrite(_, _)
MergeProperties_Overwrite(properties, props) ==
    IF props = <<>> THEN properties
    ELSE LET prop == Head(props)
             value == IF prop.name = "transparency"
                      THEN ClampTransparency(prop.value)
                      ELSE prop.value
         IN MergeProperties_Overwrite(
                DictMerge(properties, (prop.name :> value)), Tail(props))

\* lines 122-142: one category's property list merged into properties,
\* a name already present is left alone
RECURSIVE MergeProperties(_, _)
MergeProperties(properties, props) ==
    IF props = <<>> THEN properties
    ELSE LET prop == Head(props)
             value == IF prop.name = "transparency"
                      THEN ClampTransparency(prop.value)
                      ELSE prop.value
             next == IF prop.name \in DOMAIN properties
                     THEN properties
                     ELSE DictMerge(properties, (prop.name :> value))
         IN MergeProperties(next, Tail(props))

\* lines 145-148: the parent category appended to the deque
ParentOf(current, cats) ==
    IF Truthy(current.inheritsFrom)
    THEN CategoryMapGet(cats, current.inheritsFrom)
    ELSE <<>>

\* lines 111-113: the loop state for one candidate category; merged is the
\* history of the category ids whose properties were merged
WalkInit(category) ==
    [stack |-> <<category>>, visited |-> {}, properties |-> EmptyDict,
     merged |-> <<>>]

\* an iteration without the visited test of lines 117-119
WalkStep_NoVisited(w, cats) ==
    LET current == Head(w.stack)
    IN [stack |-> Tail(w.stack) \o ParentOf(current, cats),
        visited |-> w.visited \cup {current.id},
        properties |-> MergeProperties(w.properties, current.properties),
        merged |-> Append(w.merged, current.id)]

\* lines 115-148: one iteration of "while stack"
WalkStep(w, cats) ==
    LET current == Head(w.stack)
        rest == Tail(w.stack)
    IN IF current.id \in w.visited
       THEN [w EXCEPT !.stack = rest]
       ELSE [stack |-> rest \o ParentOf(current, cats),
             visited |-> w.visited \cup {current.id},
             properties |-> MergeProperties(w.properties, current.properties),
             merged |-> Append(w.merged, current.id)]

RECURSIVE WalkRun(_, _)
WalkRun(w, cats) ==
    IF w.stack = <<>> THEN w ELSE WalkRun(WalkStep(w, cats), cats)

-----------------------------------------------------------------------------
(* extract_visualization (crawler.py 72-159)                               *)

Ok(props) == [st |-> "ok", props |-> props, exc |-> ""]
NoneOut == [st |-> "none", props |-> EmptyDict, exc |-> ""]
Raise(e) == [st |-> "raise", props |-> EmptyDict, exc |-> e]

\* line 159: an empty dict is returned as None
Returned(props) == IF DOMAIN props = {} THEN NoneOut ELSE Ok(props)

\* line 80: index of the first entity whose str(id) is entity_id, 0 if none
FindEntity(ents, entity_id) ==
    LET hits == {i \in 1..Len(ents) : Str(ents[i].id) = entity_id}
    IN IF hits = {} THEN 0 ELSE CHOOSE i \in hits : \A j \in hits : i <= j

\* lines 104-108: the category is attached to the entity and is named
\* visualization or geometry
IsVisCategory(category, entity_id) ==
    /\ StrGet(category.entityId) = entity_id
    /\ Lower(category.name) \in {"visualization", "geometry"}

\* lines 102-150: (category id, walked properties) per candidate, list order
RECURSIVE VisCandidates(_, _, _)
VisCandidates(rest, entity_id, cats) ==
    IF rest = <<>> THEN <<>>
    ELSE LET category == Head(rest)
             tail == VisCandidates(Tail(rest), entity_id, cats)
         IN IF IsVisCategory(category, entity_id)
            THEN <<[id |-> category.id,
                    properties |-> WalkRun(WalkInit(category), cats).properties]>>
                 \o tail
            ELSE tail

\* line 155 compares ids of two types: sort raises TypeError
MixedIds(cands) ==
    \E i, j \in 1..Len(cands) : cands[i].id.t # cands[j].id.t

\* a choice that forgets the sort
TopCandidate_Unsorted(cands) == cands[1]

\* lines 155-156: sort by id, reverse and stable, then take element 0:
\* the first candidate in list order among those of the greatest id
TopCandidate(cands) ==
    LET top == {i \in 1..Len(cands) :
                   \A j \in 1..Len(cands) : ~IdLess(cands[i].id, cands[j].id)}
    IN cands[CHOOSE i \in top : \A j \in top : i <= j]

\* lines 72-159. path holds the entities of the enclosing calls: a call on
\* one of them repeats without end and Python raises RecursionError
RECURSIVE ExtractOn(_, _, _, _)
RECURSIVE BaseProps(_, _, _, _, _)

\* a resolver that skips the entity-level inheritance
BaseProps_Skipped(bases, acc, cats, ents, path) == Ok(acc)

\* lines 86-99: later bases overwrite earlier ones; "or {}" for None
BaseProps(bases, acc, cats, ents, path) ==
    IF bases = <<>> THEN Ok(acc)
    ELSE LET base_vis == ExtractOn(Str(Head(bases)), cats, ents, path)
         IN IF base_vis.st = "raise" THEN base_vis
            ELSE BaseProps(Tail(bases), DictMerge(acc, base_vis.props),
                           cats, ents, path)

ExtractOn(raw_id, cats, ents, path) ==
    LET entity_id == Str(raw_id)
        i == FindEntity(ents, entity_id)
    IN IF i = 0 THEN NoneOut
       ELSE IF i \in path THEN Raise("RecursionError")
       ELSE
         LET entity == ents[i]
             base == BaseProps(entity.inheritsFrom, EmptyDict, cats, ents,
                               path \cup {i})
         IN IF base.st = "raise" THEN base
            ELSE
              LET cands == VisCandidates(cats, entity_id, cats)
              IN IF cands = <<>> THEN Returned(base.props)
                 ELSE IF MixedIds(cands) THEN Raise("TypeError")
                 ELSE Returned(DictMerge(base.props,
                                         TopCandidate(cands).properties))

extract_visualization(entity_id, all_categories, ents) ==
    ExtractOn(entity_id, all_categories, ents, {})

-----------------------------------------------------------------------------
(* build_entity_tree and build_output_tree (crawler.py 60-69, 243-328)     *)

\* a grouping of every entity that names a parent under one key
ChildrenOf_AlsoInheriting(ents, entity_id) ==
    SelectSeq(ents, LAMBDA e :
        \/ Truthy(e.parentId) /\ Str(e.parentId) = entity_id
        \/ \E b \in 1..Len(e.inheritsFrom) : Str(e.inheritsFrom[b]) = entity_id)

\* build_entity_tree(entities).get(entity_id, []): the entities whose
\* parentId is present and truthy and whose str(parentId) is the key, in
\* list order
ChildrenOf(ents, entity_id) ==
    SelectSeq(ents, LAMBDA e :
        Truthy(e.parentId) /\ Str(e.parentId) = entity_id)

\* float(value) in thousandths: a one-element sequence, empty when float()
\* raises
Float(val) ==
    CASE val.k = "float" -> <<val.n>>
      [] IsNumeric(val) -> <<val.n * 1000>>
      [] OTHER -> <<>>

\* math.radians, thousandths of a degree to thousandths of a radian
Radians(degrees) == (degrees * 3927) \div 225000

RotProps == <<"rotX", "rotY", "rotZ">>
PosProps == <<"posX", "posY", "posZ">>
CopyProps == <<"sizeX", "sizeY", "sizeZ", "radius", "transparency">>

\* name_counts keyed without the parent
CountKey_Global(parent_id, entity_name) == <<JStr(EmptyText), entity_name>>

\* name_counts[parent_id][entity_name]
CountKey(parent_id, entity_name) == <<parent_id, entity_name>>

CountGet(name_counts, key) ==
    IF key \in DOMAIN name_counts THEN name_counts[key] ELSE 0

CountPut(name_counts, key, count) ==
    [k \in (DOMAIN name_counts) \cup {key} |->
        IF k = key THEN count ELSE name_counts[k]]

NoCounts == [k \in {} |-> 0]

\* lines 268-270: f"{entity_name}_{count}" from the second use on
RenderName(entity_name, count) ==
    IF count > 1 THEN entity_name \o "_" \o ToString(count) ELSE entity_name

\* lines 285-299: the node keys copied from vis; <<>> when a float() raises
NodeAttrs(vis) ==
    LET present(names) == {names[j] : j \in 1..Len(names)} \cap DOMAIN vis
        floated == present(RotProps) \cup present(PosProps)
    IN IF \E p \in floated : Float(vis[p]) = <<>> THEN <<>>
       ELSE << [p \in floated \cup present(CopyProps) |->
                  IF p \in present(RotProps)
                    THEN Flt(Radians(Float(vis[p])[1]))
                  ELSE IF p \in present(PosProps)
                    THEN Flt(Float(vis[p])[1])
                  ELSE vis[p]] >>

\* base_entities_map.get(base_id): the keys are str(id), the lookup is by
\* the raw reference; the last entity of a key stands
RECURSIVE BaseMapGet(_, _)
BaseMapGet(base_entities, base_id) ==
    IF base_entities = <<>> \/ base_id.t # "str" THEN <<>>
    ELSE LET last == base_entities[Len(base_entities)]
         IN IF Str(last.id) = base_id THEN <<last>>
            ELSE BaseMapGet(SubSeq(base_entities, 1, Len(base_entities) - 1),
                            base_id)

\* lines 311-326: partUuid and partName of a node with visualization
PartRef(entity, base_entities) ==
    LET own == [partUuid |-> Str(entity.id), partName |-> entity.name]
    IN IF entity.inheritsFrom = <<>> THEN own
       ELSE LET base == BaseMapGet(base_entities, entity.inheritsFrom[1])
            IN IF base = <<>> THEN own
               ELSE [partUuid |-> Str(entity.inheritsFrom[1]),
                     partName |-> base[1].name]

Built(node, name_counts) ==
    [st |-> "ok", node |-> node, counts |-> name_counts, exc |-> ""]
NotBuilt(name_counts) ==
    [st |-> "none", node |-> <<>>, counts |-> name_counts, exc |-> ""]
BuildRaise(e) ==
    [st |-> "raise", node |-> <<>>, counts |-> NoCounts, exc |-> e]

RECURSIVE BuildOn(_, _, _, _, _, _, _)
RECURSIVE BuildChildren(_, _, _, _, _, _, _, _)
RECURSIVE BuildRest(_, _, _, _, _, _, _, _)
RECURSIVE BuildEntity(_, _, _, _, _, _, _, _, _)

\* lines 302-308: the loop over tree.get(entity_id, []) with the shared
\* name_counts; done is the children list built so far
BuildChildren(children, done, uuid, ents, cats, bases, name_counts, path) ==
    IF children = <<>> THEN Built(done, name_counts)
    ELSE BuildRest(BuildOn(Head(children).id, ents, cats, bases,
                           <<uuid>>, name_counts, path),
                   Tail(children), done, uuid, ents, cats, bases, path)

\* lines 305-308: "if child_node: node['children'].append(child_node)"
BuildRest(child_node, rest, done, uuid, ents, cats, base_entities, path) ==
    IF child_node.st = "raise" THEN child_node
    ELSE BuildChildren(rest,
             IF child_node.st = "ok"
               THEN Append(done, child_node.node) ELSE done,
             uuid, ents, cats, base_entities, child_node.counts, path)

\* lines 272-328: the node of an entity once its name is rendered, its
\* visualization vis resolved and its children kids built
BuildNode(entity, entity_name, vis, base_entities, kids) ==
    IF kids.st = "raise" THEN kids
    ELSE Built([name |-> entity_name,
                uuid |-> Str(entity.id),
                children |-> kids.node,
                attrs |-> IF vis.st = "ok" THEN NodeAttrs(vis.props)[1]
                          ELSE EmptyDict,
                part |-> IF vis.st = "ok"
                           THEN <<PartRef(entity, base_entities)>>
                           ELSE <<>>],
               kids.counts)

\* lines 258-328 for the entity ents[i] with its visualization vis
BuildEntity(i, entity_name, counts, vis, ents, cats, bases, path, entity_id) ==
    IF vis.st = "raise" THEN BuildRaise(vis.exc)
    ELSE IF vis.st = "ok" /\ NodeAttrs(vis.props) = <<>>
      THEN BuildRaise("ValueError")
    ELSE BuildNode(ents[i], entity_name, vis, bases,
                   BuildChildren(ChildrenOf(ents, entity_id), <<>>,
                                 Str(ents[i].id), ents, cats, bases,
                                 counts, path \cup {i}))

\* build_output_tree; parent is <<>> or the uuid of the parent node, path
\* the entities whose call is still open (a call on one of them never
\* returns: RecursionError)
BuildOn(raw_id, ents, cats, base_entities, parent, name_counts, path) ==
    LET entity_id == Str(raw_id)
        i == FindEntity(ents, entity_id)
    IN IF i = 0 THEN NotBuilt(name_counts)
       ELSE IF i \in path THEN BuildRaise("RecursionError")
       ELSE
         LET entity == ents[i]
             key == CountKey(parent[1], entity.name)
             counts == IF parent = <<>> THEN name_counts
                       ELSE CountPut(name_counts, key,
                                     CountGet(name_counts, key) + 1)
             entity_name == IF parent = <<>> THEN entity.name
                            ELSE RenderName(entity.name, counts[key])
         IN BuildEntity(i, entity_name, counts,
                        extract_visualization(entity_id, cats, ents),
                        ents, cats, base_entities, path, entity_id)

build_output_tree(entity_id, ents, cats, base_entities) ==
    BuildOn(entity_id, ents, cats, base_entities, <<>>, NoCounts, {})

-----------------------------------------------------------------------------
(* Inputs: the entity and category collections served by the API           *)

MaxCats == 2

SeqsUpTo(S, n) == UNION {[1..k -> S] : k \in 0..n}

J(t, n) == [t |-> t, v |-> n]

Prop(name, value) == [name |-> name, value |-> value]

Entity(id, name, type, parent, inherits) ==
    [id |-> id, name |-> name, entityTypeId |-> type, parentId |-> parent,
     inheritsFrom |-> inherits]

Category(id, name, entityId, inherits, props) ==
    [id |-> id, name |-> name, entityId |-> entityId,
     inheritsFrom |-> inherits, properties |-> props]

\* (name, inheritsFrom, properties) of the categories of the resolver runs;
\* tr is the JSON type of the inheritsFrom references
CategoryKinds(tr) ==
    { <<"Visualization", JAbsent, <<Prop("shape", Txt("BOX"))>> >>,
      <<"Geometry", J(tr, 10),
        <<Prop("shape", Txt("SPHERE")), Prop("color", NumTxt(5)),
          Prop("transparency", Num(-5))>> >>,
      <<"visualization", JAbsent,
        <<Prop("color", NumTxt(7)), Prop("transparency", NumTxt(150))>> >>,
      <<"mass", JAbsent,
        <<Prop("shape", Txt("CONE")), Prop("color", NumTxt(9))>> >> }

\* the categories attached to entities 1 and 2; t is the JSON type of the
\* category ids
ResolveCategories(t, tr) ==
    { Category(J(t, i), k[1], JNum(e), k[2], k[3]) :
        i \in {2, 3, 10}, e \in {1, 2}, k \in CategoryKinds(tr) }

\* the category of the base entity 3
BaseCategory(t) ==
    Category(J(t, 7), "Visualization", JNum(3), JAbsent,
             <<Prop("shape", Txt("CYLINDER")), Prop("color", NumTxt(1)),
               Prop("transparency", Txt("abc"))>>)

\* category ids are keys of the served collection: no id twice
DistinctIds(cs) == \A i, j \in 1..Len(cs) : cs[i].id = cs[j].id => i = j

CategoryLists(t, tr) ==
    { cs \in SeqsUpTo(ResolveCategories(t, tr), MaxCats) : DistinctIds(cs) }

\* entity 1 and entity 2 with their inheritsFrom lists, entity 3 a base;
\* id 4 names no entity
ResolveEntities ==
    { << Entity(JNum(1), "Sat", JNum(1), JAbsent, i1),
         Entity(JStr(2), "Panel", JNum(1), JAbsent, i2),
         Entity(JNum(3), "Base", JNum(1), JAbsent, <<>>) >> :
        i1 \in { <<>>, <<JNum(3)>>, <<JStr(2), JNum(3)>>, <<JNum(1)>> },
        i2 \in { <<JNum(4)>>, <<JStr(1)>> } }

QueryIds == {JNum(1), JStr(2)}

NoQuery == JAbsent

-----------------------------------------------------------------------------
(* The resolver run: extract_visualization called on the fetched data      *)

NoWalk ==
    [stack |-> <<>>, visited |-> {}, properties |-> EmptyDict, merged |-> <<>>]

InitResolve ==
    /\ NoHost
    /\ walk = NoWalk
    /\ entity_types = <<>>
    /\ failing = {}
    /\ entities \in ResolveEntities
    /\ \E t \in {"num", "str"} :
          \E cs \in CategoryLists(t, t) : categories = cs \o <<BaseCategory(t)>>
    /\ query = NoQuery
    /\ result = NoneOut

Resolve(entity_id) ==
    /\ query' = entity_id
    /\ result' = extract_visualization(entity_id, categories, entities)
    /\ UNCHANGED <<server, failing, walk, host>>

NextResolve == \E entity_id \in QueryIds : Resolve(entity_id)

SpecResolve == InitResolve /\ [][NextResolve]_vars

-----------------------------------------------------------------------------
(* The category-chain walk, one loop iteration per step                    *)

MaxChain == 3

ChainProps ==
    { <<Prop("shape", Txt("BOX"))>>,
      <<Prop("shape", Txt("SPHERE")), Prop("color", NumTxt(5))>>,
      <<Prop("color", NumTxt(7)), Prop("transparency", NumTxt(150))>> }

\* n categories of ids 1..n; an inheritsFrom reference is missing, names one
\* of them (itself included) or names the id n + 1 of no category
ChainCategories(n, tr) ==
    [1..n -> { Category(JNum(0), "Visualization", JNum(1), inh, ps) :
                 inh \in {JAbsent} \cup {J(tr, j) : j \in 1..(n + 1)},
                 ps \in ChainProps }]

WithIds(cs) == [i \in 1..Len(cs) |-> [cs[i] EXCEPT !.id = JNum(i)]]

InitWalk ==
    /\ NoHost
    /\ entity_types = <<>>
    /\ failing = {}
    /\ entities = <<Entity(JNum(1), "Sat", JNum(1), JAbsent, <<>>)>>
    /\ \E n \in 1..MaxChain, tr \in {"num", "str"} :
          \E cs \in ChainCategories(n, tr) : categories = WithIds(cs)
    /\ query = NoQuery
    /\ result = NoneOut
    /\ walk = WalkInit(categories[1])

\* lines 115-148: "while stack" runs one more iteration
WalkIterate ==
    /\ walk.stack # <<>>
    /\ walk' = WalkStep(walk, categories)
    /\ UNCHANGED <<server, failing, query, result, host>>

NextWalk == WalkIterate

SpecWalk == InitWalk /\ [][NextWalk]_vars

\* the loop is sequential code: an iteration that can run does run
SpecWalkFair == SpecWalk /\ WF_vars(WalkIterate)

-----------------------------------------------------------------------------
(* The tree run: build_output_tree called on the fetched data              *)

MaxEntities == 4

ProductDefinitionText == -2

\* the entityTypeId "ProductDefinition"
ProductDefinition == JStr(ProductDefinitionText)

\* lines 472-475: the ProductDefinition entities, or all when there is none
BaseEntities(ents) ==
    LET defs == SelectSeq(ents, LAMBDA e : e.entityTypeId = ProductDefinition)
    IN IF defs = <<>> THEN ents ELSE defs

TreeNames == {"Panel", "Panel_2"}

TreeCategory(e, props) ==
    Category(JNum(10 + e), "Visualization", JNum(e), JAbsent, props)

\* what entity 2 inherits from, the entity type of entity 3 and the
\* category list; tr is the JSON type of the references
TreeDecor(tr) ==
    { [inherits |-> <<>>, type3 |-> JNum(1), cats |-> <<>>],
      [inherits |-> <<J(tr, 3)>>, type3 |-> ProductDefinition,
       cats |-> <<TreeCategory(3, <<Prop("shape", Txt("BOX")),
                                    Prop("rotX", NumTxt(90)),
                                    Prop("posX", Num(2)),
                                    Prop("sizeX", Txt("abc")),
                                    Prop("transparency", NumTxt(150))>>)>>],
      [inherits |-> <<J(tr, 2)>>, type3 |-> JNum(1),
       cats |-> <<TreeCategory(1, <<Prop("shape", Txt("BOX"))>>)>>],
      [inherits |-> <<>>, type3 |-> JNum(1),
       cats |-> <<TreeCategory(2, <<Prop("rotX", Txt("abc"))>>)>>] }

\* n entities of ids 1..n: entity 1 "Sat" has no parent or entity 2 as its
\* parent, every other entity has no parent or another one of the first
\* three entities as parent
TreeEntities(n, t, tr, d) ==
    { [i \in 1..n |->
          Entity(J(t, i), IF i = 1 THEN "Sat" ELSE names[i],
                 IF i = 3 THEN d.type3 ELSE JNum(1),
                 parents[i],
                 IF i = 2 THEN d.inherits ELSE <<>>)] :
        names \in { ns \in [1..n -> TreeNames] : ns[1] = "Panel" },
        parents \in { ps \in [1..n -> {JAbsent} \cup {J(tr, p) : p \in 1..3}] :
                        /\ ps[1] \in {JAbsent, J(tr, 2)}
                        /\ \A i \in 2..n : ps[i] # J(tr, i) } }

\* the ids build_output_tree is called on; id 9 names no entity
TreeRoots == {JNum(1), JStr(2), JNum(9)}

NoTree == NotBuilt(NoCounts)

InitTree ==
    /\ NoHost
    /\ walk = NoWalk
    /\ entity_types = <<>>
    /\ failing = {}
    /\ query = NoQuery
    /\ result = NoTree
    /\ \E t \in {"num", "str"} :
          \E d \in TreeDecor(IF t = "num" THEN "str" ELSE "num") :
             /\ categories = d.cats
             /\ entities \in TreeEntities(MaxEntities, t,
                                 IF t = "num" THEN "str" ELSE "num", d)

BuildTree(entity_id) ==
    /\ query' = entity_id
    /\ result' = build_output_tree(entity_id, entities, categories,
                                   BaseEntities(entities))
    /\ UNCHANGED <<server, failing, walk, host>>

NextTree == \E entity_id \in TreeRoots : BuildTree(entity_id)

SpecTree == InitTree /\ [][NextTree]_vars

-----------------------------------------------------------------------------
(* get_part_data and generate_satellite_data (crawler.py 162-240, 349-523) *)

DefaultGray == 12632256

NullText == -3

\* str(value).strip().upper() on the shape texts of the model
ShapeText(val) ==
    CASE val.k = "txt" /\ val.s \in {"box", " Box "} -> "BOX"
      [] val.k = "txt" /\ val.s \in {"none", "None"} -> "NONE"
      [] val.k = "txt" /\ val.s = "sphere" -> "SPHERE"
      [] val.k = "txt" /\ val.s = "cylinder" -> "CYLINDER"
      [] val.k = "txt" /\ val.s = "cone" -> "CONE"
      [] val.k = "txt" /\ val.s = "pyramid" -> "PYRAMID"
      [] val.k = "txt" /\ val.s = " " -> ""
      [] val.k = "txt" -> val.s
      [] OTHER -> ToString(val.n)

\* float(vis.get(name, default)), the default in thousandths
FloatGet(vis, name, default) ==
    IF name \in DOMAIN vis THEN Float(vis[name]) ELSE <<default>>

\* lines 189-193: int(color_str) of a truthy value, gray otherwise and when
\* int() raises
ColorOf(vis) ==
    IF "color" \notin DOMAIN vis THEN DefaultGray
    ELSE LET color_str == vis["color"]
         IN CASE color_str.k = "txt" -> DefaultGray
              [] color_str.k = "num" /\ color_str.n = 0 -> DefaultGray
              [] OTHER -> color_str.n

Half(m) == m \div 2

\* lines 205-238: the dimensions of a shape, in thousandths
ShapeDims(shape, sizeX, sizeY, sizeZ, radius) ==
    CASE shape = "SPHERE" ->
           [shape |-> shape, lengthX |-> 0, lengthY |-> 0, lengthZ |-> 0,
            radius |-> IF radius > 0 THEN radius
                       ELSE Half(Max(sizeX, Max(sizeY, sizeZ)))]
      [] shape = "CYLINDER" ->
           [shape |-> shape, lengthX |-> 0, lengthY |-> sizeY, lengthZ |-> 0,
            radius |-> IF radius > 0 THEN radius ELSE Half(Max(sizeX, sizeZ))]
      [] OTHER ->
           [shape |-> "BOX", lengthX |-> sizeX, lengthY |-> sizeY,
            lengthZ |-> sizeZ, radius |-> radius]

PartOk(part) == [st |-> "ok", part |-> <<part>>, exc |-> ""]
PartNone == [st |-> "none", part |-> <<>>, exc |-> ""]
PartRaise(e) == [st |-> "raise", part |-> <<>>, exc |-> e]

\* lines 172-240: get_part_data once extract_visualization has returned vis
PartFrom(entity, vis) ==
    IF vis.st = "raise" THEN PartRaise(vis.exc)
       ELSE IF vis.st = "none" THEN PartNone
       ELSE
         LET shape == IF "shape" \in DOMAIN vis.props
                        THEN ShapeText(vis.props["shape"]) ELSE ""
             sizeX == FloatGet(vis.props, "sizeX", 100)
             sizeY == FloatGet(vis.props, "sizeY", 100)
             sizeZ == FloatGet(vis.props, "sizeZ", 100)
             radius == FloatGet(vis.props, "radius", 0)
             transparency == FloatGet(vis.props, "transparency", 0)
         IN IF shape = "" \/ shape = "NONE" THEN PartNone
            ELSE IF <<>> \in {sizeX, sizeY, sizeZ, radius, transparency}
              THEN PartRaise("ValueError")
            ELSE
              LET dims == ShapeDims(shape, sizeX[1], sizeY[1], sizeZ[1],
                                    radius[1])
              IN PartOk([shape |-> dims.shape,
                         uuid |-> Str(entity.id),
                         name |-> entity.name,
                         color |-> ColorOf(vis.props),
                         transparency |-> transparency[1],
                         lengthX |-> dims.lengthX,
                         lengthY |-> dims.lengthY,
                         lengthZ |-> dims.lengthZ,
                         radius |-> dims.radius])

get_part_data(entity, cats, ents) ==
    PartFrom(entity, extract_visualization(entity.id, cats, ents))

\* lines 483-490: the Parts list, or the exception of the first
\* get_part_data that raises
RECURSIVE PartsList(_, _, _, _)
RECURSIVE PartsAppend(_, _, _, _, _)

\* an append that does not look at what is in the list
PartsAppend_Twice(part_data, rest, cats, ents, done) ==
    IF part_data.st = "raise" THEN part_data
    ELSE PartsList(rest, cats, ents, done \o part_data.part \o part_data.part)

PartsList(base_entities, cats, ents, done) ==
    IF base_entities = <<>> THEN [st |-> "ok", part |-> done, exc |-> ""]
    ELSE PartsAppend(get_part_data(Head(base_entities), cats, ents),
                     Tail(base_entities), cats, ents, done)

\* lines 485-490: "if part_data: parts_list.append(part_data)"
PartsAppend(part_data, rest, cats, ents, done) ==
    IF part_data.st = "raise" THEN part_data
    ELSE PartsList(rest, cats, ents, done \o part_data.part)

\* lines 377-380: ids and present parentIds become their str()
Normalized(ents) ==
    [i \in 1..Len(ents) |->
        [ents[i] EXCEPT !.id = StrGet(ents[i].id),
                        !.parentId = IF ents[i].parentId.t = "absent"
                                       THEN JAbsent
                                       ELSE Str(ents[i].parentId)]]

ExcludedRootNames == {"Product Tree", "Product Tree Domain", "Modes"}

\* lines 393-408: the str() ids of the root entity types
RootModelIds(types) ==
    { Str(types[j].id) : j \in { j \in 1..Len(types) :
          types[j].isRoot /\ types[j].name \notin ExcludedRootNames } }

OfRootModel(e, types) == StrGet(e.entityTypeId) \in RootModelIds(types)

\* line 422
NoParent(parent_id) ==
    \/ ~Truthy(parent_id)
    \/ parent_id = JStr(NoneText)
    \/ parent_id = JStr(NullText)

\* lines 413-438: the root entities, with the two fallbacks
RootEntities(ents, types) ==
    LET standard == SelectSeq(ents, LAMBDA e :
                        OfRootModel(e, types) /\ NoParent(e.parentId))
        orphans == SelectSeq(ents, LAMBDA e : ~Truthy(e.parentId))
    IN IF standard # <<>> THEN standard
       ELSE IF orphans # <<>> THEN orphans
       ELSE SelectSeq(ents, LAMBDA e : OfRootModel(e, types))

\* lines 452-456: the name of the first type whose str(id) is the entity's
\* entityTypeId
RECURSIVE TypeName(_, _)
TypeName(types, entityTypeId) ==
    IF types = <<>> THEN "Unknown"
    ELSE IF Str(Head(types).id) = entityTypeId THEN Head(types).name
    ELSE TypeName(Tail(types), entityTypeId)

ModelsResult(roots, types) ==
    [models |-> [j \in 1..Len(roots) |->
                    [id |-> roots[j].id, name |-> roots[j].name,
                     type |-> TypeName(types, roots[j].entityTypeId)]]]

ErrorResult(msg) == [error |-> msg]

\* lines 518-523
Caught(exc) ==
    [error |-> "Failed to generate satellite data", traceback |-> exc]

\* lines 483-516: the result once the Parts list and the Products tree are
\* built, or the first exception of the two
SnapshotOf(parts_list, products_tree, now) ==
    IF parts_list.st = "raise" THEN Caught(parts_list.exc)
    ELSE IF products_tree.st = "raise" THEN Caught(products_tree.exc)
    ELSE IF products_tree.st = "none"
      THEN ErrorResult("Failed to generate valid products tree")
    ELSE [Products |-> products_tree.node,
          Parts |-> parts_list.part,
          timestamp |-> now]

\* lines 465-469 replaced: a selected id of no entity falls back to the first
\* entity
SnapshotFor_FirstEntity(selected_model_id, ents, cats, failed, now) ==
    IF "categories" \in failed THEN Caught("TypeError")
    ELSE SnapshotOf(PartsList(BaseEntities(ents), cats, ents, <<>>),
                    build_output_tree(
                        IF FindEntity(ents, selected_model_id) = 0
                          THEN ents[1].id ELSE selected_model_id,
                        ents, cats, BaseEntities(ents)),
                    now)

\* lines 465-516 for a chosen model id; categories is None after a failed
\* fetch and the first loop over it raises
SnapshotFor(selected_model_id, ents, cats, failed, now) ==
    IF \A i \in 1..Len(ents) : Str(ents[i].id) # selected_model_id
      THEN ErrorResult("Selected model not found")
    ELSE IF "categories" \in failed THEN Caught("TypeError")
    ELSE SnapshotOf(PartsList(BaseEntities(ents), cats, ents, <<>>),
                    build_output_tree(selected_model_id, ents, cats,
                                      BaseEntities(ents)),
                    now)

\* lines 441-516: the models list, or the snapshot of the selected or the
\* only root
GenerateFor(selected, types, ents, root_entities, cats, failed, now) ==
    IF selected = JNull /\ Len(root_entities) # 1
      THEN ModelsResult(root_entities, types)
    ELSE SnapshotFor(IF selected = JNull THEN root_entities[1].id
                     ELSE Str(selected),
                     ents, cats, failed, now)

\* generate_satellite_data; selected is JNull for None, failed the
\* endpoints whose fetch_data returns None, now the value of time.time()
generate_satellite_data(selected, types, raw_entities, cats, failed, now) ==
    IF "entity_types" \in failed \/ types = <<>>
      THEN ErrorResult("No entity types returned from API")
    ELSE IF "entities" \in failed \/ raw_entities = <<>>
      THEN ErrorResult("No entities returned from API")
    ELSE GenerateFor(selected, types, Normalized(raw_entities),
                     RootEntities(Normalized(raw_entities), types),
                     cats, failed, now)

-----------------------------------------------------------------------------
(* The generation run: generate_satellite_data on what the API serves      *)

EntityType(id, name, isRoot) == [id |-> id, name |-> name, isRoot |-> isRoot]

\* the entity type lists; tt is the JSON type of the type ids
GenTypes(tt) ==
    { <<EntityType(J(tt, 1), "Satellite", TRUE)>>,
      <<EntityType(J(tt, 1), "Satellite", TRUE),
        EntityType(J(tt, 2), "Product Tree", TRUE)>>,
      <<EntityType(J(tt, 1), "Satellite", FALSE),
        EntityType(J(tt, 2), "Component", TRUE)>> }

\* the category lists: none, a box on entity e, a sphere on entity e whose
\* sizeX is no number, the shape "None", a cone and a shape of no known name
GenCategories(e) ==
    { <<>>,
      <<TreeCategory(e, <<Prop("shape", Txt("None")),
                          Prop("sizeX", NumTxt(2))>>)>>,
      <<TreeCategory(e, <<Prop("shape", Txt("cone")),
                          Prop("sizeX", NumTxt(2)),
                          Prop("radius", NumTxt(1))>>)>>,
      <<TreeCategory(e, <<Prop("shape", Txt("pyramid")),
                          Prop("sizeX", NumTxt(2))>>)>>,
      <<TreeCategory(e, <<Prop("shape", Txt("box")),
                          Prop("sizeX", NumTxt(2)),
                          Prop("color", NumTxt(5)),
                          Prop("rotX", NumTxt(90))>>)>>,
      <<TreeCategory(e, <<Prop("shape", Txt("sphere")),
                          Prop("sizeX", Txt("abc"))>>)>> }

\* (entityTypeId, parentId) of the entities after the first
GenKinds(tt, tr) ==
    { <<J(tt, 1), JAbsent>>, <<J(tt, 1), JNull>>, <<J(tt, 1), J(tr, 1)>>,
      <<J(tt, 2), JAbsent>>, <<ProductDefinition, JAbsent>>,
      <<ProductDefinition, J(tr, 1)>> }

\* n entities of ids 1..n: entity 1 "Sat" of type 1 inherits from the last
\* entity or from none
GenEntities(n, t, tt, tr) ==
    { [i \in 1..n |->
          IF i = 1 THEN Entity(J(t, 1), "Sat", J(tt, 1), p1, inh)
          ELSE Entity(J(t, i), "Panel", kinds[i][1], kinds[i][2], <<>>)] :
        p1 \in {JAbsent, JNull, J(tr, 2)},
        inh \in {<<>>, <<J(tr, n)>>},
        kinds \in { ks \in [1..n -> GenKinds(tt, tr)] :
                      ks[1] = <<J(tt, 1), JAbsent>> } }

\* selected_model_id: None, an entity id, an id of no entity
SelectedIds == {JNull, JNum(1), JStr(9)}

\* the fetches that fail in one run: none, one, or all three when
\* get_auth_session returns no session to fetch_data
FailureSets ==
    {{}, {"entity_types"}, {"entities"}, {"categories"},
     {"entity_types", "entities", "categories"}}

Times == {1, 2}

NotGenerated == [none |-> TRUE]

InitGenerate ==
    /\ NoHost
    /\ walk = NoWalk
    /\ failing = {}
    /\ query = NoQuery
    /\ result = NotGenerated
    /\ \E t \in {"num", "str"} :
          LET tr == IF t = "num" THEN "str" ELSE "num"
          IN /\ entity_types \in GenTypes(tr)
             /\ entities \in GenEntities(MaxEntities - 1, t, t, tr)
             /\ categories \in GenCategories(MaxEntities - 1)

\* one run per fetched project: runs share nothing but the served data
Generate(selected, failed, now) ==
    /\ result = NotGenerated
    /\ query' = selected
    /\ failing' = failed
    /\ result' = generate_satellite_data(selected, entity_types, entities,
                                         categories, failed, now)
    /\ UNCHANGED <<server, walk, host>>

NextGenerate ==
    \E selected \in SelectedIds, failed \in FailureSets, now \in Times :
       Generate(selected, failed, now)

SpecGenerate == InitGenerate /\ [][NextGenerate]_vars

-----------------------------------------------------------------------------
(* The FreeCAD document: objects in creation order, each with the oid of   *)
(* its parent group (0 for none); a placement is the sequence of the       *)
(* non-identity placements it is the product of                            *)

NewDocument ==
    [objects |-> <<>>, nextId |-> 1, imported |-> FALSE,
     modelId |-> JStr(EmptyText), jsonPath |-> "", timestamp |-> 0]

\* FreeCAD.Placement(Vector(pos), Rotation(rot))
Placement(pos, rot) ==
    IF pos = <<0, 0, 0>> /\ rot = <<0, 0, 0>> THEN <<>>
    ELSE <<[pos |-> pos, rot |-> rot]>>

\* float(node.get(name, 0)) on a node of a snapshot, in thousandths
NodeFloat(node, name) ==
    IF name \in DOMAIN node.attrs THEN Float(node.attrs[name])[1] ELSE 0

\* str(uuid).strip().lower() if uuid else ""
LowerNoneText == -4
normalize_uuid(uuid) ==
    IF ~Truthy(uuid) THEN JStr(EmptyText)
    ELSE IF Str(uuid) = JStr(NoneText) THEN JStr(LowerNoneText)
    ELSE Str(uuid)

\* get_object_by_uuid: the index of the first object of that UUID, or 0
RECURSIVE FirstWithUuid(_, _, _)
FirstWithUuid(objects, uuid, i) ==
    IF i > Len(objects) THEN 0
    ELSE IF objects[i].uuid = uuid THEN i
    ELSE FirstWithUuid(objects, uuid, i + 1)

get_object_by_uuid(d, uuid) == FirstWithUuid(d.objects, uuid, 1)

\* doc.addObject(type, name): the new object is the last of doc.Objects
AddObject(d, fields) ==
    [d EXCEPT !.objects = Append(@, [fields EXCEPT !.oid = d.nextId]),
              !.nextId = @ + 1]

\* group.addObject(obj): obj leaves the group it was in
SetParent(d, oid, parent_oid) ==
    [d EXCEPT !.objects =
        [i \in 1..Len(@) |->
            IF @[i].oid = oid THEN [@[i] EXCEPT !.parent = parent_oid]
            ELSE @[i]]]

SetObject(d, obj) ==
    [d EXCEPT !.objects =
        [i \in 1..Len(@) |-> IF @[i].oid = obj.oid THEN obj ELSE @[i]]]

\* doc.removeObject(obj.Name): the members of a removed group stay in the
\* document without a group
RemoveObject(d, oid) ==
    [d EXCEPT !.objects =
        LET kept == SelectSeq(@, LAMBDA o : o.oid # oid)
        IN [i \in 1..Len(kept) |->
               IF kept[i].parent = oid THEN [kept[i] EXCEPT !.parent = 0]
               ELSE kept[i]]]

NoDims == [k \in {} |-> 0]

Assembly(node, placement) ==
    [oid |-> 0, kind |-> "App::Part", label |-> node.name, uuid |-> node.uuid,
     parent |-> 0, placement |-> placement, shape |-> "", color |-> 0,
     transparency |-> 0, dims |-> NoDims]

\* a dict {key(p["uuid"]): p for p in Parts}: the part of a key, as <<part>>
\* or <<>>; the last part of a key stands
RECURSIVE PartsGet(_, _, _)
PartsGet(parts, normalized, key) ==
    IF parts = <<>> THEN <<>>
    ELSE LET last == parts[Len(parts)]
         IN IF (IF normalized THEN normalize_uuid(last.uuid) ELSE last.uuid)
                 = key
              THEN <<last>>
            ELSE PartsGet(SubSeq(parts, 1, Len(parts) - 1), normalized, key)

\* the uuids indexed by index_nodes
RECURSIVE IndexNodes(_)
IndexNodes(node) ==
    (IF Truthy(normalize_uuid(node.uuid))
       THEN {normalize_uuid(node.uuid)} ELSE {})
    \cup UNION { IndexNodes(node.children[j]) : j \in 1..Len(node.children) }

-----------------------------------------------------------------------------
(* workbench/SatelliteImporter.py                                          *)

\* create_local_placement: metres to millimetres, the rotation values as
\* they are
create_local_placement(node) ==
    Placement(<<NodeFloat(node, "posX") * 1000, NodeFloat(node, "posY") * 1000,
                NodeFloat(node, "posZ") * 1000>>,
              <<NodeFloat(node, "rotX"), NodeFloat(node, "rotY"),
                NodeFloat(node, "rotZ")>>)

\* SatellitePart.init_properties: the length properties of a part
PartDimsW ==
    [k \in {"LengthX", "LengthY", "LengthZ", "Radius", "CylinderHeight",
            "Radius1", "Radius2", "ConeHeight"} |-> 0]

\* lines 279-292: the dimensions set for a shape, in thousandths of a mm
ShapeDimsW(shape_type, part_info) ==
    CASE shape_type = "BOX" ->
           [PartDimsW EXCEPT !["LengthX"] = part_info.lengthX * 1000,
                             !["LengthY"] = part_info.lengthY * 1000,
                             !["LengthZ"] = part_info.lengthZ * 1000]
      [] shape_type = "CYLINDER" ->
           [PartDimsW EXCEPT !["Radius"] = part_info.radius * 1000,
                             !["CylinderHeight"] = part_info.lengthY * 1000]
      [] shape_type = "SPHERE" ->
           [PartDimsW EXCEPT !["Radius"] = part_info.radius * 1000]
      [] shape_type = "CONE" ->
           [PartDimsW EXCEPT !["Radius1"] = 50 * 1000,
                             !["Radius2"] = 0,
                             !["ConeHeight"] = 100 * 1000]
      [] OTHER -> PartDimsW

IsPartLeaf(node) == node.part # <<>> /\ node.children = <<>>

RECURSIVE build_fc_tree_recursively(_, _, _, _, _)
RECURSIVE BuildFcChildren(_, _, _, _, _)

BuildFcChildren(children, parent_oid, parts, normalized, d) ==
    IF children = <<>> THEN d
    ELSE BuildFcChildren(Tail(children), parent_oid, parts, normalized,
             build_fc_tree_recursively(Head(children), parent_oid, parts,
                                       normalized, d))

\* lines 256-309; parts with normalized say how parts_dict is keyed
build_fc_tree_recursively(node_data, parent_oid, parts, normalized, d) ==
    IF IsPartLeaf(node_data)
      THEN LET part_info == PartsGet(parts, normalized,
                                     node_data.part[1].partUuid)
           IN IF part_info = <<>> THEN d
              ELSE AddObject(d,
                     [oid |-> 0, kind |-> "Part::FeaturePython",
                      label |-> node_data.name, uuid |-> node_data.uuid,
                      parent |-> parent_oid,
                      placement |-> create_local_placement(node_data),
                      shape |-> part_info[1].shape,
                      color |-> part_info[1].color,
                      transparency |->
                          NodeFloat(node_data, "transparency") \div 100,
                      dims |-> ShapeDimsW(part_info[1].shape, part_info[1])])
    ELSE LET created == AddObject(d, Assembly(node_data,
                                      create_local_placement(node_data)))
         IN SetParent(BuildFcChildren(node_data.children, d.nextId, parts,
                                      normalized, created),
                      d.nextId, parent_oid)

\* import_satellite, lines 331-359, on the snapshot read from the file
import_satellite_W(d, data, filename) ==
    LET stamped == [d EXCEPT !.imported = TRUE,
                             !.modelId = Str(data.Products.uuid),
                             !.jsonPath = filename,
                             !.timestamp = data.timestamp]
        rooted == AddObject(stamped, Assembly(data.Products,
                                create_local_placement(data.Products)))
    IN BuildFcChildren(data.Products.children, stamped.nextId, data.Parts,
                       FALSE, rooted)

\* update_part_properties, lines 394-433: the object after the update
update_part_properties_W(obj, node, part_data) ==
    LET new_placement == create_local_placement(node)
        trans_val == NodeFloat(node, "transparency") \div 100
        new_dims == IF part_data.shape = "BOX"
                      THEN [obj.dims EXCEPT
                              !["LengthX"] = part_data.lengthX * 1000,
                              !["LengthY"] = part_data.lengthY * 1000,
                              !["LengthZ"] = part_data.lengthZ * 1000]
                    ELSE obj.dims
    IN [obj EXCEPT !.placement = new_placement,
                   !.color = part_data.color,
                   !.transparency = trans_val,
                   !.shape = part_data.shape,
                   !.dims = new_dims]

\* the state of one update run: the document, the counters and the
\* exception that ended the run ("" for none)
Run(d) ==
    [doc |-> d, added |-> 0, updated |-> 0, moved |-> 0, removed |-> 0,
     exc |-> ""]

\* lines 455-467: every uuid of the document that the snapshot lacks loses
\* the first object found under it
RECURSIVE RemoveEachW(_, _)
RemoveEachW(s, uuids_to_remove) ==
    IF uuids_to_remove = {} THEN s
    ELSE LET obj_uuid == CHOOSE u \in uuids_to_remove : TRUE
             i == get_object_by_uuid(s.doc, obj_uuid)
         IN RemoveEachW(
                IF i = 0 THEN s
                ELSE [s EXCEPT !.doc = RemoveObject(@, s.doc.objects[i].oid),
                               !.removed = @ + 1],
                uuids_to_remove \ {obj_uuid})

ExistingUuids(d) ==
    { normalize_uuid(d.objects[i].uuid) : i \in 1..Len(d.objects) }

RECURSIVE process_node_for_update(_, _, _, _)
RECURSIVE ProcessChildrenW(_, _, _, _)

ProcessChildrenW(children, parent_oid, parts, s) ==
    IF children = <<>> \/ s.exc # "" THEN s
    ELSE ProcessChildrenW(Tail(children), parent_oid, parts,
             process_node_for_update(Head(children), parent_oid, parts, s))

\* lines 471-510
process_node_for_update(node_data, parent_oid, parts, s) ==
    LET uuid == normalize_uuid(node_data.uuid)
        i == get_object_by_uuid(s.doc, uuid)
        obj == s.doc.objects[i]
        is_moved == obj.parent # parent_oid
        placed == [s EXCEPT
                     !.doc = IF is_moved THEN SetParent(@, obj.oid, parent_oid)
                             ELSE @,
                     !.moved = IF is_moved THEN @ + 1 ELSE @]
        part_info == PartsGet(parts, TRUE,
                              normalize_uuid(node_data.part[1].partUuid))
        as_part == update_part_properties_W(placed.doc.objects[i], node_data,
                                            part_info[1])
        as_assembly == [placed.doc.objects[i] EXCEPT
                          !.placement = create_local_placement(node_data),
                          !.label = node_data.name]
        changed(new) == [placed EXCEPT
                           !.doc = SetObject(@, new),
                           !.updated = IF new # placed.doc.objects[i]
                                         THEN @ + 1 ELSE @]
        s1 == IF i = 0
                THEN LET built == build_fc_tree_recursively(node_data,
                                      parent_oid, parts, TRUE, s.doc)
                     IN [s EXCEPT !.doc = built, !.added = @ + 1]
              ELSE IF ~IsPartLeaf(node_data) THEN changed(as_assembly)
              ELSE IF part_info = <<>> THEN placed
              ELSE IF obj.kind # "Part::FeaturePython"
                THEN [placed EXCEPT !.exc = "AttributeError"]
              ELSE changed(as_part)
        current == get_object_by_uuid(s1.doc, uuid)
    IN IF ~Truthy(uuid) THEN s
       ELSE IF s1.exc # "" \/ current = 0 THEN s1
       ELSE ProcessChildrenW(node_data.children,
                             s1.doc.objects[current].oid, parts, s1)

\* the message the run ends with
Outcome(s) ==
    [run |-> s,
     kind |-> IF s.exc # "" THEN "Update Error" ELSE "Update Successful"]

\* lines 514-537: the children of the root are processed under the root
\* object; removal is the run after the removals
UpdateFromRoot(updated_data, removal) ==
    LET root == get_object_by_uuid(removal.doc,
                    normalize_uuid(updated_data.Products.uuid))
    IN IF root = 0 THEN [run |-> removal, kind |-> "Update Error"]
       ELSE Outcome(ProcessChildrenW(updated_data.Products.children,
                                     removal.doc.objects[root].oid,
                                     updated_data.Parts, removal))

\* update_satellite_document, lines 436-542: the run with its outcome
update_satellite_document_W(d, updated_data) ==
    IF "Products" \notin DOMAIN updated_data
      THEN [run |-> [RemoveEachW(Run(d), ExistingUuids(d))
                       EXCEPT !.exc = "KeyError"],
            kind |-> "Update Error"]
    ELSE
    UpdateFromRoot(updated_data,
        RemoveEachW(Run(d),
            ExistingUuids(d) \ IndexNodes(updated_data.Products)))

-----------------------------------------------------------------------------
(* freecad/Mod/SatelliteWorkbench/SatelliteImporter.py                     *)

SCALE_FACTOR == 1000

\* create_placement: metres to millimetres, math.radians on the rotations
create_placement(node) ==
    Placement(<<NodeFloat(node, "posX") * SCALE_FACTOR,
                NodeFloat(node, "posY") * SCALE_FACTOR,
                NodeFloat(node, "posZ") * SCALE_FACTOR>>,
              <<Radians(NodeFloat(node, "rotX")),
                Radians(NodeFloat(node, "rotY")),
                Radians(NodeFloat(node, "rotZ"))>>)

\* lines 265-304: an App::Part for the node and for every node below it,
\* each with the product of the placements from the root down; nodes maps
\* a uuid to the oid and the placement of its assembly
RECURSIVE create_assembly_node(_, _, _, _)
RECURSIVE FProcessChildren(_, _, _, _)

FProcessChildren(children, parent_oid, parent_placement, s) ==
    IF children = <<>> THEN s
    ELSE FProcessChildren(Tail(children), parent_oid, parent_placement,
             create_assembly_node(Head(children), parent_oid,
                                  parent_placement, s))

create_assembly_node(node, parent_oid, parent_placement, s) ==
    LET placement == parent_placement \o create_placement(node)
        oid == s.doc.nextId
        created == AddObject(s.doc, [Assembly(node, placement)
                                       EXCEPT !.parent = parent_oid])
        entry == [oid |-> oid, placement |-> placement]
    IN FProcessChildren(node.children, oid, placement,
           [s EXCEPT !.doc = created,
                     !.nodes = [u \in (DOMAIN @) \cup {node.uuid} |->
                                   IF u = node.uuid THEN entry ELSE @[u]]])

\* a value a PropertyFloat accepts: a number, not a string
IsNumber(val) == val.k \in {"num", "float"}

\* lines 349-384: the dimension properties added for a shape, in thousandths
\* of a metre; radius is the node's override when it has one
ShapeDimsF(shape_type, part_data, radius) ==
    CASE shape_type = "BOX" ->
           [k \in {"LengthX", "LengthY", "LengthZ"} |->
               CASE k = "LengthX" -> part_data.lengthX
                 [] k = "LengthY" -> part_data.lengthY
                 [] OTHER -> part_data.lengthZ]
      [] shape_type = "CYLINDER" ->
           [k \in {"Radius", "CylinderHeight"} |->
               IF k = "Radius" THEN radius ELSE part_data.lengthY]
      [] shape_type = "SPHERE" -> [k \in {"Radius"} |-> radius]
      [] OTHER -> NoDims

RECURSIVE process_node(_, _, _)
RECURSIVE FProcessNodes(_, _, _)

FProcessNodes(children, parts, s) ==
    IF children = <<>> \/ s.exc # "" THEN s
    ELSE FProcessNodes(Tail(children), parts,
                       process_node(Head(children), parts, s))

\* lines 307-396: the part object of a node whose partUuid is a key of
\* parts_dict, placed in the node's own assembly
process_node(node, parts, s) ==
    LET base == IF node.part = <<>> THEN <<>>
                ELSE PartsGet(parts, FALSE, node.part[1].partUuid)
        own == s.nodes[node.uuid]
        override(name, value) ==
            IF name \in DOMAIN node.attrs THEN node.attrs[name] ELSE Flt(value)
        transparency == override("transparency", base[1].transparency)
        radius == override("radius", base[1].radius)
        needs_radius == base[1].shape \in {"CYLINDER", "SPHERE"}
        part_obj ==
            [oid |-> 0, kind |-> "Part::FeaturePython", label |-> node.name,
             uuid |-> node.uuid, parent |-> own.oid,
             placement |-> own.placement \o create_placement(node),
             shape |-> base[1].shape, color |-> base[1].color,
             transparency |-> IF IsNumber(transparency)
                                THEN Float(transparency)[1] ELSE 0,
             dims |-> ShapeDimsF(base[1].shape, base[1],
                         IF IsNumber(radius) THEN Float(radius)[1] ELSE 0)]
        \* the object as it is when an assignment raises: in no group,
        \* the properties added so far at 0.0
        unfinished ==
            [part_obj EXCEPT
               !.parent = 0,
               !.transparency = IF IsNumber(transparency) THEN @ ELSE 0,
               !.placement = IF IsNumber(transparency) THEN @ ELSE <<>>,
               !.dims = IF IsNumber(transparency)
                          THEN [k \in DOMAIN @ |-> 0] ELSE NoDims]
        s1 == IF base = <<>> THEN s
              ELSE IF ~IsNumber(transparency) \/
                      (needs_radius /\ ~IsNumber(radius))
                THEN [s EXCEPT !.doc = AddObject(@, unfinished),
                               !.exc = "TypeError"]
              ELSE [s EXCEPT !.doc = AddObject(@, part_obj)]
    IN FProcessNodes(node.children, parts, s1)

\* import_satellite, lines 225-429: the document left behind and the
\* exception that ended the import ("" for none)
import_satellite_F(d, data, filename) ==
    LET stamped == [d EXCEPT !.imported = TRUE,
                             !.modelId = Str(data.Products.uuid),
                             !.jsonPath = filename,
                             !.timestamp = data.timestamp]
        assemblies == create_assembly_node(data.Products, 0, <<>>,
                          [doc |-> stamped, exc |-> "",
                           nodes |-> [u \in {} |-> 0]])
    IN FProcessNodes(data.Products.children, data.Parts, assemblies)

\* uuid_map.get(uuid): the last object of the document under the uuid
RECURSIVE LastWithUuid(_, _, _)
LastWithUuid(objects, uuid, i) ==
    IF i = 0 THEN 0
    ELSE IF normalize_uuid(objects[i].uuid) = uuid THEN i
    ELSE LastWithUuid(objects, uuid, i - 1)

UuidMapGet(d, uuid) == LastWithUuid(d.objects, uuid, Len(d.objects))

\* part_data.get(key, default) on the dict or {} found for a partUuid
PartGet(part_data, key, default) ==
    IF part_data = <<>> THEN default ELSE part_data[1][key]

\* the dimension values update_part_properties compares for a shape
TargetDimsF(part_data) ==
    LET shape_type == PartGet(part_data, "shape", "BOX")
    IN CASE shape_type = "BOX" ->
              [k \in {"LengthX", "LengthY", "LengthZ"} |->
                  CASE k = "LengthX" -> PartGet(part_data, "lengthX", 100)
                    [] k = "LengthY" -> PartGet(part_data, "lengthY", 100)
                    [] OTHER -> PartGet(part_data, "lengthZ", 100)]
         [] shape_type = "CYLINDER" ->
              [k \in {"Radius", "CylinderHeight"} |->
                  IF k = "Radius" THEN PartGet(part_data, "radius", 50)
                  ELSE PartGet(part_data, "lengthY", 100)]
         [] OTHER -> NoDims

\* update_part_properties, lines 740-797: a missing dimension property is
\* added with 0.1 before the comparison
update_part_properties_F(obj, part_data) ==
    LET target == TargetDimsF(part_data)
        current(k) == IF k \in DOMAIN obj.dims THEN obj.dims[k] ELSE 100
        new_color == PartGet(part_data, "color", DefaultGray)
        new_transparency == PartGet(part_data, "transparency", 0)
    IN [obj |-> [obj EXCEPT
                   !.color = new_color,
                   !.transparency = new_transparency,
                   !.dims = [k \in (DOMAIN obj.dims) \cup (DOMAIN target) |->
                                IF k \in DOMAIN target THEN target[k]
                                ELSE obj.dims[k]]],
        changed |-> \/ obj.color # new_color
                    \/ obj.transparency # new_transparency
                    \/ \E k \in DOMAIN target : current(k) # target[k]]

\* create_part_object, lines 715-737: a part in no group
create_part_object(d, node, part_data) ==
    LET blank == [oid |-> 0, kind |-> "Part::FeaturePython",
                  label |-> node.name, uuid |-> node.uuid, parent |-> 0,
                  placement |-> create_placement(node),
                  shape |-> PartGet(part_data, "shape", "BOX"),
                  color |-> PartGet(part_data, "color", DefaultGray),
                  transparency |-> PartGet(part_data, "transparency", 0),
                  dims |-> NoDims]
    IN AddObject(d, update_part_properties_F(blank, part_data).obj)

\* lines 509-525: the last object of every uuid that the snapshot lacks is
\* taken out of its group and removed
RECURSIVE RemoveEachF(_, _)
RemoveEachF(s, uuids_to_remove) ==
    IF uuids_to_remove = {} THEN s
    ELSE LET obj_uuid == CHOOSE u \in uuids_to_remove : TRUE
             i == UuidMapGet(s.doc, obj_uuid)
         IN RemoveEachF(
                [s EXCEPT !.doc = RemoveObject(@, s.doc.objects[i].oid),
                          !.removed = @ + 1],
                uuids_to_remove \ {obj_uuid})

RECURSIVE process_parts(_, _, _)
RECURSIVE FProcessParts(_, _, _)

FProcessParts(children, parts, s) ==
    IF children = <<>> THEN s
    ELSE FProcessParts(Tail(children), parts,
                       process_parts(Head(children), parts, s))

\* lines 582-659; parent_assembly is None in every call, assembly_objects
\* being empty
process_parts(node, parts, s) ==
    LET uuid == normalize_uuid(node.uuid)
        part_data == PartsGet(parts, TRUE,
                              normalize_uuid(node.part[1].partUuid))
        i == UuidMapGet(s.doc, uuid)
        obj == s.doc.objects[i]
        update == update_part_properties_F(obj, part_data)
        s1 == IF node.part = <<>> THEN s
              ELSE IF i = 0
                THEN [s EXCEPT !.doc = create_part_object(@, node, part_data),
                               !.added = @ + 1]
              ELSE IF obj.kind # "Part::FeaturePython" THEN s
              ELSE [s EXCEPT !.doc = SetObject(@, update.obj),
                             !.updated = IF update.changed THEN @ + 1 ELSE @]
    IN FProcessParts(node.children, parts, s1)

\* update_satellite_document, lines 445-696, on a snapshot
update_satellite_document_F(d, updated_data) ==
    IF "Products" \notin DOMAIN updated_data
      THEN [run |-> Run(d), kind |-> "Update Failed"]
    ELSE
    [run |-> [process_parts(updated_data.Products, updated_data.Parts,
                  RemoveEachF(Run(d),
                      { u \in ExistingUuids(d) : Truthy(u) }
                         \ IndexNodes(updated_data.Products)))
              EXCEPT
                !.doc = [@ EXCEPT
                   !.modelId = normalize_uuid(updated_data.Products.uuid),
                   !.timestamp = updated_data.timestamp]],
     kind |-> "Update Successful"]

-----------------------------------------------------------------------------
(* UpdateSatellite.Activated of the two workbenches                        *)

Report(kind, run) ==
    [kind |-> kind, added |-> run.added, updated |-> run.updated,
     moved |-> run.moved, removed |-> run.removed]

NoReport == Report("", Run(NewDocument))

\* the document an update leaves and the message box it shows
Shown(update) ==
    [doc |-> update.run.doc, report |-> Report(update.kind, update.run)]

\* a gate that lets an equal timestamp through
TimestampGate_Strict(new_ts, current_ts) == new_ts # 0 /\ new_ts < current_ts

\* workbench line 591: "if new_ts and new_ts <= current_ts"
TimestampGate(new_ts, current_ts) == new_ts # 0 /\ new_ts <= current_ts

\* output.get("timestamp", 0)
TimestampOf(output) ==
    IF "timestamp" \in DOMAIN output THEN output.timestamp ELSE 0

\* workbench lines 559-605 after the crawler has returned output: the
\* document and the message shown
ActivatedW(d, reply, output) ==
    IF ~d.imported THEN [doc |-> d, report |-> Report("Update Failed", Run(d))]
    ELSE IF reply # "Yes" THEN [doc |-> d, report |-> NoReport]
    ELSE IF "error" \in DOMAIN output
      THEN [doc |-> d, report |-> Report("Update Failed", Run(d))]
    ELSE IF TimestampGate(TimestampOf(output), d.timestamp)
      THEN [doc |-> d, report |-> Report("No Changes", Run(d))]
    ELSE Shown(update_satellite_document_W(
                   [d EXCEPT !.timestamp = TimestampOf(output)], output))

\* freecad lines 808-879 after the crawler has returned output
ActivatedF(d, reply, output) ==
    IF ~d.imported THEN [doc |-> d, report |-> Report("Update Failed", Run(d))]
    ELSE LET pathed == [d EXCEPT !.jsonPath = "update_path.json"]
         IN IF reply # "Yes" THEN [doc |-> pathed, report |-> NoReport]
            ELSE IF TimestampOf(output) <= pathed.timestamp
              THEN [doc |-> pathed, report |-> Report("No Changes", Run(d))]
            ELSE Shown(update_satellite_document_F(pathed, output))

-----------------------------------------------------------------------------
(* The document run: a project on the server, imported into a document and *)
(* updated from the server                                                 *)

MaxTime == 2

DocTypes == <<EntityType(JStr(1), "Satellite", TRUE)>>

\* a box with a colour and a position on entity e
DocBox(e, color, pos) ==
    TreeCategory(e, <<Prop("shape", Txt("box")), Prop("sizeX", NumTxt(2)),
                      Prop("color", NumTxt(color)), Prop("posX", NumTxt(pos)),
                      Prop("rotX", NumTxt(90)),
                      Prop("transparency", NumTxt(50))>>)

\* a sizeX and a position of its own and no shape on entity e
DocWider(e) ==
    TreeCategory(e, <<Prop("sizeX", NumTxt(3)), Prop("posX", NumTxt(2))>>)

\* a position and no shape on entity e
DocPosOnly(e) == TreeCategory(e, <<Prop("posX", NumTxt(1))>>)

\* a sphere of a radius on entity e
DocSphere(e, radius) ==
    TreeCategory(e, <<Prop("shape", Txt("sphere")),
                      Prop("radius", NumTxt(radius))>>)

\* the id of the root entity: "1", or a text with an upper-case letter
DocRoots == {JStr(1), JStr(NoneText)}

\* the states of the project: the root "Sat", "Panel" under it with a box
\* of one of two colours or with a position only, and the box "Arm" under
\* the root, under "Panel" or under an entity that is not there
DocDataOf(r) ==
    { [entities |->
          << Entity(r, "Sat", JStr(1), JAbsent, <<>>),
             Entity(JStr(2), "Panel", JStr(1), r, <<>>),
             Entity(JStr(3), "Arm", JStr(1), p3, <<>>) >>,
       categories |-> c2 \o <<DocBox(3, 5, 2)>>] :
        p3 \in {r, JStr(2), JStr(9)},
        c2 \in { <<DocBox(2, 5, 0)>>, <<DocBox(2, 7, 1)>>,
                 <<DocPosOnly(2)>> } }

\* the project in which "Arm" inherits the box of "Panel" and widens it
DocInheriting(r) ==
    [entities |->
        << Entity(r, "Sat", JStr(1), JAbsent, <<>>),
           Entity(JStr(2), "Panel", JStr(1), r, <<>>),
           Entity(JStr(3), "Arm", JStr(1), r, <<JStr(2)>>) >>,
     categories |-> <<DocBox(2, 5, 0), DocWider(3)>>]

\* the project in which "Panel" is a sphere of one of two radii
DocRound(r) ==
    { [entities |->
          << Entity(r, "Sat", JStr(1), JAbsent, <<>>),
             Entity(JStr(2), "Panel", JStr(1), r, <<>>),
             Entity(JStr(3), "Arm", JStr(1), r, <<>>) >>,
       categories |-> <<DocSphere(2, radius), DocBox(3, 5, 2)>>] :
        radius \in {1, 2} }

DocData ==
    UNION { DocDataOf(r) \cup {DocInheriting(r)} \cup DocRound(r) :
              r \in DocRoots }

\* the fetches that may fail while a document is updated
DocFailureSets == {{}, {"entities"}}

Workbenches == {"workbench", "freecad"}

InitDocument ==
    /\ walk = NoWalk
    /\ failing = {}
    /\ query = NoQuery
    /\ result = NotGenerated
    /\ entity_types = DocTypes
    /\ \E data \in DocData :
          entities = data.entities /\ categories = data.categories
    /\ NoAuth
    /\ impl \in Workbenches
    /\ doc = NewDocument
    /\ snapshot = NotGenerated
    /\ report = NoReport

\* the project is edited on the server, the root entity keeping its id: what
\* the last command fetched and showed is no longer what the server holds
EditProject(data) ==
    /\ <<entities, categories>> # <<data.entities, data.categories>>
    /\ data.entities[1].id = entities[1].id
    /\ entities' = data.entities
    /\ categories' = data.categories
    /\ snapshot' = NotGenerated
    /\ report' = NoReport
    /\ failing' = {}
    /\ UNCHANGED <<entity_types, query, result, walk, impl, doc, auth>>

\* import_satellite into a new document, on the file written from the
\* snapshot of the root entity
import_satellite(d, data, filename) ==
    IF impl = "workbench"
      THEN [doc |-> import_satellite_W(d, data, filename), exc |-> ""]
    ELSE import_satellite_F(d, data, filename)

Imported(data, imported) ==
    /\ snapshot' = data
    /\ doc' = imported.doc
    /\ report' = Report(IF imported.exc # "" THEN "Import Error"
                        ELSE "Import Successful", Run(doc))

ImportFrom(data) ==
    /\ "Products" \in DOMAIN data
    /\ Imported(data,
                import_satellite(doc, data, "satellite_structure.json"))

Import(now) ==
    /\ ~doc.imported
    /\ ImportFrom(generate_satellite_data(entities[1].id, entity_types,
                                          entities, categories, {}, now))
    /\ UNCHANGED <<entities, categories, entity_types, failing, query,
                   result, walk, impl, auth>>

\* UpdateSatellite.Activated: the user's reply and, when the crawler is
\* called, the fetches that fail and the clock reading are inputs
Activated(d, reply, output) ==
    IF impl = "workbench" THEN ActivatedW(d, reply, output)
    ELSE ActivatedF(d, reply, output)

Updated(done) ==
    /\ doc' = done.doc
    /\ report' = done.report

UpdateFrom(reply, output) ==
    /\ snapshot' = IF doc.imported /\ reply = "Yes" THEN output
                   ELSE NotGenerated
    /\ Updated(Activated(doc, reply, output))

UpdateSatellite(reply, failed, now) ==
    /\ (doc.imported /\ reply = "Yes") \/ (failed = failing /\ now = 1)
    /\ failing' = failed
    /\ UpdateFrom(reply,
                  generate_satellite_data(doc.modelId, entity_types, entities,
                                          categories, failed, now))
    /\ UNCHANGED <<entities, categories, entity_types, query, result, walk,
                   impl, auth>>

NextDocument ==
    \/ \E data \in DocData : EditProject(data)
    \/ \E now \in 1..MaxTime : Import(now)
    \/ \E reply \in {"Yes", "No"}, failed \in DocFailureSets,
          now \in 1..MaxTime :
          UpdateSatellite(reply, failed, now)

SpecDocument == InitDocument /\ [][NextDocument]_vars

-----------------------------------------------------------------------------
(* get_auth_session: crawler.py lines 18-39, workbench/SatelliteImporter.py *)
(* lines 19-37, freecad/.../SatelliteImporter.py lines 23-43                *)

MaxSessions == 4

\* what the server answers to the login post: a token, a body without
\* access_token, an error status
LoginReplies == {"token", "no_token", "http_error"}

\* "API_SESSION = None  # Reset on failure": the workbench importer only
ResetsOnFailure(module) == module = "workbench"

\* the global after the call and the value returned, for the session object
\* created when the global is None
AuthOutcome(module, session, reply, created) ==
    IF session # None
      THEN [global |-> session, returned |-> session, posted |-> FALSE]
    ELSE IF reply = "token"
      THEN [global |-> Session(created, TRUE),
            returned |-> Session(created, TRUE), posted |-> TRUE]
    ELSE [global |-> IF ResetsOnFailure(module) THEN None
                     ELSE Session(created, FALSE),
          returned |-> None, posted |-> TRUE]

Called(module, reply, out) ==
    /\ API_SESSION' = [API_SESSION EXCEPT ![module] = out.global]
    /\ logins' = [made |-> IF out.posted THEN logins.made + 1
                           ELSE logins.made,
                  latest |-> IF ~out.posted THEN logins.latest
                             ELSE [logins.latest EXCEPT ![module] =
                                     IF reply = "token" THEN "ok"
                                     ELSE "failed"],
                  module |-> module, posted |-> out.posted,
                  returned |-> out.returned]

\* one call of a module's get_auth_session; reply is the server's answer
\* should the call post a login
get_auth_session(module, reply) ==
    /\ logins.made < MaxSessions
    /\ Called(module, reply,
              AuthOutcome(module, API_SESSION[module], reply, logins.made + 1))
    /\ UNCHANGED <<server, failing, query, result, walk, impl, doc, snapshot,
                   report>>

InitAuth ==
    /\ NoHost
    /\ entities = <<>> /\ categories = <<>> /\ entity_types = <<>>
    /\ failing = {}
    /\ query = NoQuery
    /\ result = NoneOut
    /\ walk = NoWalk

NextAuth ==
    \E module \in AuthModules, reply \in LoginReplies :
       get_auth_session(module, reply)

SpecAuth == InitAuth /\ [][NextAuth]_vars

-----------------------------------------------------------------------------
(* Claims on the resolver run                                              *)

Queried == FindEntity(entities, Str(query))

\* the categories attached to the queried entity under a visualization or
\* geometry name, in list order
OwnCandidates == VisCandidates(categories, Str(query), categories)

\* what the inheritsFrom list of the queried entity resolves to
OwnBase ==
    BaseProps(entities[Queried].inheritsFrom, EmptyDict, categories, entities,
              {Queried})

SameOutcome(a, b) == a.st = b.st /\ a.props = b.props

\* C1: an entity whose inheritsFrom list is exactly [B] and that has no
\* visualization/geometry category of its own resolves to what B resolves
\* to (the same property map, or None for both).
C1_InheritsOnlyEqualsBase ==
    (/\ query # NoQuery
     /\ Queried # 0
     /\ Len(entities[Queried].inheritsFrom) = 1
     /\ \A c \in 1..Len(categories) :
           ~IsVisCategory(categories[c], Str(query)))
    => SameOutcome(result,
                   extract_visualization(entities[Queried].inheritsFrom[1],
                                         categories, entities))

C1_Witness ==
    /\ query # NoQuery
    /\ Queried # 0
    /\ Len(entities[Queried].inheritsFrom) = 1
    /\ \A c \in 1..Len(categories) : ~IsVisCategory(categories[c], Str(query))
    /\ result.st = "ok"
    /\ "shape" \in DOMAIN result.props

\* the bases of the queried entity that resolve property P
BasesResolving(P) ==
    { b \in 1..Len(entities[Queried].inheritsFrom) :
        LET r == extract_visualization(entities[Queried].inheritsFrom[b],
                                       categories, entities)
        IN r.st = "ok" /\ P \in DOMAIN r.props }

PropNames == {"shape", "color", "transparency"}

\* C2 as stated: whenever some own visualization/geometry category chain of
\* E defines P and a base of E resolves P, the resolved P is a value of an
\* own chain that defines P.
C2_AnyOwnChainBeatsBase ==
    (query # NoQuery /\ Queried # 0 /\ result.st = "ok")
    => \A P \in PropNames :
         LET defining == {c \in 1..Len(OwnCandidates) :
                            P \in DOMAIN OwnCandidates[c].properties}
         IN (defining # {} /\ BasesResolving(P) # {})
            => \E c \in defining :
                 result.props[P] = OwnCandidates[c].properties[P]

\* the authoritative candidate: greatest id, first listed among equal ids
Authoritative ==
    CHOOSE c \in 1..Len(OwnCandidates) :
        /\ \A d \in 1..Len(OwnCandidates) :
              ~IdLess(OwnCandidates[c].id, OwnCandidates[d].id)
        /\ \A d \in 1..(c - 1) : OwnCandidates[d].id # OwnCandidates[c].id

\* C2 amended: when the chain of the authoritative own category of E (the
\* attached visualization/geometry category of greatest id, the first
\* listed among equal ids) defines P and a base of E resolves P, the
\* resolved P is the value of that chain, whatever the base says.
C2_OwnChainBeatsBase ==
    (query # NoQuery /\ Queried # 0 /\ result.st = "ok"
     /\ OwnCandidates # <<>>)
    => \A P \in PropNames :
         (P \in DOMAIN OwnCandidates[Authoritative].properties
          /\ BasesResolving(P) # {})
         => result.props[P] = OwnCandidates[Authoritative].properties[P]

C2_Witness ==
    /\ query # NoQuery /\ Queried # 0 /\ result.st = "ok"
    /\ OwnCandidates # <<>>
    /\ \E P \in PropNames :
         /\ P \in DOMAIN OwnCandidates[Authoritative].properties
         /\ \E b \in BasesResolving(P) :
              extract_visualization(entities[Queried].inheritsFrom[b],
                                    categories, entities).props[P]
                # result.props[P]

\* C5: with several visualization/geometry categories attached to one
\* entity, the result is the inherited base properties overwritten by the
\* chain of a candidate of greatest id, and by nothing else: every resolved
\* property comes from that chain or from entity inheritance.
C5_GreatestIdCandidateOnly ==
    (query # NoQuery /\ Queried # 0 /\ result.st = "ok"
     /\ Len(OwnCandidates) >= 2)
    => \E c \in 1..Len(OwnCandidates) :
         /\ \A d \in 1..Len(OwnCandidates) :
               ~IdLess(OwnCandidates[c].id, OwnCandidates[d].id)
         /\ \A P \in DOMAIN result.props :
               \/ /\ P \in DOMAIN OwnCandidates[c].properties
                  /\ result.props[P] = OwnCandidates[c].properties[P]
               \/ /\ P \notin DOMAIN OwnCandidates[c].properties
                  /\ P \in DOMAIN OwnBase.props
                  /\ result.props[P] = OwnBase.props[P]
         /\ \A P \in DOMAIN OwnCandidates[c].properties :
               P \in DOMAIN result.props

\* two candidates of different ids, the lesser one defining a property that
\* the result does not carry
C5_Witness ==
    /\ query # NoQuery /\ Queried # 0 /\ result.st = "ok"
    /\ \E c, d \in 1..Len(OwnCandidates) :
         /\ IdLess(OwnCandidates[d].id, OwnCandidates[c].id)
         /\ c > d
         /\ \E P \in DOMAIN OwnCandidates[d].properties :
              P \notin DOMAIN result.props

-----------------------------------------------------------------------------
(* Claims on the category-chain walk                                       *)

WalkDone == walk.stack = <<>>

\* the category an inheritsFrom reference names, as a sequence of 0 or 1
Named(ref) ==
    LET hits == {i \in 1..Len(categories) : categories[i].id = ref}
    IN IF hits = {} THEN <<>> ELSE <<categories[CHOOSE i \in hits : TRUE]>>

\* the chain of a category: itself, then what its inheritsFrom names, and so
\* on, up to the first category met again
RECURSIVE ChainFrom(_, _)
ChainFrom(c, seen) ==
    IF c.id \in seen THEN <<>>
    ELSE <<c>> \o (IF Named(c.inheritsFrom) = <<>> THEN <<>>
                   ELSE ChainFrom(Named(c.inheritsFrom)[1], seen \cup {c.id}))

Chain == ChainFrom(categories[1], {})

Defines(c, P) == \E i \in 1..Len(c.properties) : c.properties[i].name = P

\* the value category c gives P (transparency as clamped on parse)
ValueIn(c, P) ==
    LET i == CHOOSE k \in 1..Len(c.properties) :
                 /\ c.properties[k].name = P
                 /\ \A m \in 1..(k - 1) : c.properties[m].name # P
    IN IF P = "transparency" THEN ClampTransparency(c.properties[i].value)
       ELSE c.properties[i].value

\* C3: after the walk of a category chain every property name has the value
\* of the nearest category of the chain that defines it, and a name that no
\* category of the chain defines is absent.
C3_NearestCategoryWins ==
    WalkDone =>
      \A P \in PropNames :
        LET definers == {i \in 1..Len(Chain) : Defines(Chain[i], P)}
        IN IF definers = {} THEN P \notin DOMAIN walk.properties
           ELSE /\ P \in DOMAIN walk.properties
                /\ walk.properties[P] =
                     ValueIn(Chain[CHOOSE i \in definers :
                                      \A j \in definers : i <= j], P)

\* a nearer and a farther category disagree on one name and the farther
\* one alone defines another name
C3_Witness ==
    /\ WalkDone
    /\ Len(Chain) >= 2
    /\ \E P, Q \in PropNames :
         /\ Defines(Chain[1], P) /\ Defines(Chain[2], P)
         /\ ValueIn(Chain[1], P) # ValueIn(Chain[2], P)
         /\ ~Defines(Chain[1], Q) /\ Defines(Chain[2], Q)
         /\ walk.properties[P] = ValueIn(Chain[1], P)
         /\ walk.properties[Q] = ValueIn(Chain[2], Q)

MergedAtMostOnce ==
    \A i, j \in 1..Len(walk.merged) : walk.merged[i] = walk.merged[j] => i = j

\* C4: for every set of categories, cyclic inheritsFrom pointers included,
\* the walk merges the properties of each category id at most once and the
\* loop ends.
C4_WalkTerminates == []MergedAtMostOnce /\ <>WalkDone

\* the walk of a cycle has ended
C4_Witness ==
    /\ WalkDone
    /\ Len(walk.merged) >= 2
    /\ \E i \in 1..Len(categories) :
         /\ categories[i].id \in walk.visited
         /\ categories[i].inheritsFrom = categories[1].id

-----------------------------------------------------------------------------
(* Claims on the tree run                                                  *)

\* the nodes of a tree, the root included
RECURSIVE NodesOf(_)
NodesOf(node) ==
    {node} \cup UNION { NodesOf(node.children[j]) :
                          j \in 1..Len(node.children) }

TreeBuilt == query # NoQuery /\ result.st = "ok"

\* the source name of the entity a node was built from
SourceName(node) == entities[FindEntity(entities, node.uuid)].name

\* how many of the first j children of a node carry the source name N
Uses(node, j, N) ==
    Cardinality({ i \in 1..j : SourceName(node.children[i]) = N })

\* C6: under every parent node of the output tree the k-th child, in source
\* order, that carries the source name N is rendered N for k = 1 and N_k
\* for k >= 2, counted per parent: the same name under two parents starts
\* unsuffixed under each.
C6_SiblingNamesSuffixed ==
    TreeBuilt =>
      \A node \in NodesOf(result.node) :
        \A j \in 1..Len(node.children) :
           LET N == SourceName(node.children[j])
               k == Uses(node, j, N)
           IN node.children[j].name =
                 IF k = 1 THEN N ELSE N \o "_" \o ToString(k)

\* three siblings of one name, and that name under a second parent too
C6_Witness ==
    /\ TreeBuilt
    /\ \E node \in NodesOf(result.node) :
          /\ Len(node.children) >= 2
          /\ node.children[2].name = "Panel_2"
          /\ SourceName(node.children[2]) = "Panel"
          /\ \E other \in NodesOf(result.node) :
                /\ other # node
                /\ Len(other.children) >= 1
                /\ other.children[1].name = "Panel"

UniqueIds ==
    \A i, j \in 1..Len(entities) :
       Str(entities[i].id) = Str(entities[j].id) => i = j

\* the entity an entity names as its parent, 0 for none
ParentIndex(i) ==
    IF Truthy(entities[i].parentId)
      THEN FindEntity(entities, Str(entities[i].parentId)) ELSE 0

RECURSIVE Climbs(_, _)
Climbs(i, fuel) ==
    IF i = 0 THEN TRUE
    ELSE IF fuel = 0 THEN FALSE
    ELSE Climbs(ParentIndex(i), fuel - 1)

AcyclicParents == \A i \in 1..Len(entities) : Climbs(i, Len(entities))

\* the uuids of the entities whose parentId is the uuid, in source order
RECURSIVE ExpectedChildren(_, _)
ExpectedChildren(uuid, i) ==
    IF i > Len(entities) THEN <<>>
    ELSE (IF Truthy(entities[i].parentId) /\ Str(entities[i].parentId) = uuid
            THEN <<Str(entities[i].id)>> ELSE <<>>)
         \o ExpectedChildren(uuid, i + 1)

ChildUuids(node) == [j \in 1..Len(node.children) |-> node.children[j].uuid]

\* C7: on an entity list with unique ids and an acyclic parentId relation
\* the tree built for a root has the root id as root uuid, and the children
\* of every node are exactly the entities whose parentId is that node's id,
\* in the order of the entity list, whatever the inheritsFrom lists say.
C7_ChildrenFollowParentId ==
    (TreeBuilt /\ UniqueIds /\ AcyclicParents) =>
       /\ result.node.uuid = Str(query)
       /\ \A node \in NodesOf(result.node) :
             ChildUuids(node) = ExpectedChildren(node.uuid, 1)

\* a built tree of depth two in which an entity inherits from an entity
\* that is not its parent
C7_Witness ==
    /\ TreeBuilt /\ UniqueIds /\ AcyclicParents
    /\ Len(result.node.children) >= 2
    /\ \E j \in 1..Len(result.node.children) :
          Len(result.node.children[j].children) >= 1
    /\ \E i \in 1..Len(entities) :
          /\ entities[i].inheritsFrom # <<>>
          /\ Str(entities[i].inheritsFrom[1]) # Str(entities[i].parentId)
          /\ \E node \in NodesOf(result.node) : node.uuid = Str(entities[i].id)

-----------------------------------------------------------------------------
(* Claims on the generation run                                            *)

Generated == result # NotGenerated

\* the eligible roots of the fetched data
EligibleRoots == RootEntities(Normalized(entities), entity_types)

IsSnapshotOf(r, root) ==
    /\ DOMAIN r = {"Products", "Parts", "timestamp"}
    /\ r.Products.uuid = root.id

\* C8: called without selected_model_id on fetched data, the run returns a
\* models list with one entry per eligible root and no Products key when
\* there is more than one eligible root, and the Snapshot built from the
\* root when there is exactly one.
C8_ModelsOrSnapshot ==
    (Generated /\ query = JNull /\ failing = {}) =>
       /\ Len(EligibleRoots) > 1 =>
             /\ DOMAIN result = {"models"}
             /\ Len(result.models) = Len(EligibleRoots)
             /\ \A j \in 1..Len(EligibleRoots) :
                   result.models[j].id = EligibleRoots[j].id
       /\ Len(EligibleRoots) = 1 => IsSnapshotOf(result, EligibleRoots[1])

\* the same statement for the runs in which no exception was caught
C8_ModelsOrSnapshotUnlessCaught ==
    (Generated /\ query = JNull /\ failing = {}
               /\ "traceback" \notin DOMAIN result) => C8_ModelsOrSnapshot

-----------------------------------------------------------------------------
(* Claims on the document run                                              *)

update_satellite_document(d, updated_data) ==
    IF impl = "workbench" THEN update_satellite_document_W(d, updated_data)
    ELSE update_satellite_document_F(d, updated_data)

\* C9: after update_satellite_document has run with a snapshot, running it
\* again with the same snapshot on the resulting document gives
\* added = updated = moved = removed = 0 and leaves the document as it is.
C9_SecondRunChangesNothing ==
    report.kind = "Update Successful" =>
       LET again == update_satellite_document(doc, snapshot).run
       IN /\ again.added = 0 /\ again.updated = 0
          /\ again.moved = 0 /\ again.removed = 0
          /\ again.doc = doc

\* the steps of the document run that leave the project as it is and find the
\* document a satellite document: those of the update command
IsUpdateCommand ==
    /\ UNCHANGED <<entities, categories, entity_types>>
    /\ doc.imported

-----------------------------------------------------------------------------
(* Further claims on the resolver run                                      *)

\* the transparency values the served categories carry
SourceTransparency ==
    UNION { { categories[c].properties[p].value :
                p \in { q \in 1..Len(categories[c].properties) :
                          categories[c].properties[q].name = "transparency" } } :
            c \in 1..Len(categories) }

\* what the specification asks of a source value
SpecTransparency(src) ==
    IF ~IsNumeric(src) THEN 0
    ELSE IF src.n < 0 THEN 0 ELSE IF src.n > 100 THEN 100 ELSE src.n

\* C11: in every resolved property map the transparency lies in 0..100 and
\* is the clamped value of a numeric source value or 0 for a non-numeric
\* one, whether it comes from the entity's own chain or from a base entity.
C11_TransparencyClamped ==
    (query # NoQuery /\ result.st = "ok"
       /\ "transparency" \in DOMAIN result.props) =>
       /\ result.props["transparency"].k = "num"
       /\ result.props["transparency"].n \in 0..100
       /\ \E src \in SourceTransparency :
             result.props["transparency"].n = SpecTransparency(src)

\* the transparency "abc" of the base entity reaches an entity that has no
\* transparency of its own
C11_Witness ==
    /\ query # NoQuery /\ Queried # 0 /\ result.st = "ok"
    /\ entities[Queried].inheritsFrom # <<>>
    /\ \A c \in 1..Len(OwnCandidates) :
          "transparency" \notin DOMAIN OwnCandidates[c].properties
    /\ "transparency" \in DOMAIN result.props
    /\ result.props["transparency"] = Num(0)

\* the entities that entity i reaches over inheritsFrom in at most fuel
\* steps, each reference resolved as extract_visualization resolves it
RECURSIVE InheritedFrom(_, _)
InheritedFrom(i, fuel) ==
    IF fuel = 0 THEN {}
    ELSE LET direct == { FindEntity(entities, Str(entities[i].inheritsFrom[b])) :
                            b \in 1..Len(entities[i].inheritsFrom) } \ {0}
         IN direct \cup UNION { InheritedFrom(j, fuel - 1) : j \in direct }

\* the queried entity is on an inheritsFrom cycle or inherits from an entity
\* that is
ReachesCycle ==
    LET i == FindEntity(entities, Str(query))
        n == Len(entities)
    IN /\ i # 0
       /\ \E j \in InheritedFrom(i, n) \cup {i} : j \in InheritedFrom(j, n)

\* C28: extract_visualization terminates with a result for every entity
\* set, an entity that inherits from itself or two entities that inherit
\* from each other included: no call recurses until the interpreter stops
\* it.
C28_ResolverTerminates ==
    query # NoQuery => result.exc # "RecursionError"

\* the call on an entity of an inheritsFrom cycle has recursed until the
\* interpreter raised RecursionError
C28_CycleRecurses ==
    /\ query # NoQuery
    /\ ReachesCycle
    /\ result = Raise("RecursionError")

\* the recursion is unbounded on the cycles only
C28_RecursesOnCyclesOnly ==
    query # NoQuery => (result.exc = "RecursionError" <=> ReachesCycle)

\* C29: in every tree built by build_output_tree the rendered names of the
\* children of one node are pairwise distinct, whatever the source names of
\* the siblings are (Panel, Panel and Panel_2 included).
C29_SiblingNamesDistinct ==
    TreeBuilt =>
       \A node \in NodesOf(result.node) :
          \A j, k \in 1..Len(node.children) :
             node.children[j].name = node.children[k].name => j = k

\* the second of two siblings named Panel has been rendered as Panel_2 next
\* to a sibling whose source name is Panel_2
C29_SuffixCollides ==
    /\ TreeBuilt
    /\ \E node \in NodesOf(result.node) :
          \E j, k \in 1..Len(node.children) :
             /\ j # k
             /\ node.children[j].name = "Panel_2"
             /\ node.children[k].name = "Panel_2"
             /\ SourceName(node.children[j]) = "Panel"
             /\ SourceName(node.children[k]) = "Panel_2"

\* siblings of distinct rendered names when no source name of theirs ends
\* in a count suffix
C29_DistinctWithoutSuffixedSources ==
    TreeBuilt =>
       \A node \in NodesOf(result.node) :
          (\A j \in 1..Len(node.children) :
              SourceName(node.children[j]) = "Panel")
          => \A j, k \in 1..Len(node.children) :
                node.children[j].name = node.children[k].name => j = k

-----------------------------------------------------------------------------
(* Further claims on the document run                                      *)

\* the rotations the project can carry, in thousandths of a degree
AuthoredDegrees ==
    UNION { UNION { { Float(data.categories[c].properties[p].value)[1] :
                        p \in { q \in 1..Len(data.categories[c].properties) :
                                  data.categories[c].properties[q].name
                                     \in {"rotX", "rotY", "rotZ"} } } :
                    c \in 1..Len(data.categories) } :
            data \in DocData }

\* the rotation components of the placements of the document
MaterializedRotations ==
    UNION { UNION { { doc.objects[i].placement[f].rot[a] : a \in 1..3 } :
                    f \in 1..Len(doc.objects[i].placement) } :
            i \in 1..Len(doc.objects) }

\* C12: a rotation authored as d degrees reaches the materialized placement
\* converted to radians once: every rotation component of a placement of the
\* document is 0 or radians(d) of an authored d, with no further conversion
\* by the importer or by the update.
C12_ConvertedOnce ==
    \A r \in MaterializedRotations :
       r = 0 \/ \E d \in AuthoredDegrees : r = Radians(d)

\* the workbench importer has placed an object with radians(d)
C12_WorkbenchOnce ==
    /\ impl = "workbench"
    /\ \E d \in AuthoredDegrees : d # 0 /\ Radians(d) \in MaterializedRotations

\* the freecad importer has placed an object with radians(radians(d))
C12_FreecadTwice ==
    /\ impl = "freecad"
    /\ \E d \in AuthoredDegrees :
          /\ Radians(Radians(d)) # Radians(d)
          /\ Radians(Radians(d)) \in MaterializedRotations

-----------------------------------------------------------------------------
(* Further claims on the generation run                                    *)

\* the selected id is the str() of no entity id
SelectedMissing ==
    /\ query \notin {NoQuery, JNull}
    /\ \A i \in 1..Len(entities) : Str(entities[i].id) # Str(query)

\* C13: when selected_model_id matches no entity, generate_satellite_data
\* returns an error result with neither a Products tree nor a Parts list,
\* and build_output_tree yields no node for that id.
C13_MissingModelIsError ==
    (Generated /\ SelectedMissing) =>
       /\ "error" \in DOMAIN result
       /\ "Products" \notin DOMAIN result
       /\ "Parts" \notin DOMAIN result
       /\ build_output_tree(Str(query), Normalized(entities), categories,
                            BaseEntities(Normalized(entities))).st = "none"

\* a run with all fetches served and a selected id of no entity
C13_Witness ==
    /\ Generated /\ SelectedMissing /\ failing = {}
    /\ result = ErrorResult("Selected model not found")

\* the update runs (the document is a satellite document, the crawler has
\* returned a snapshot newer than the document) and its lookup of the
\* snapshot's root finds no object
RootMissingUpdate ==
    /\ IsUpdateCommand
    /\ "Products" \in DOMAIN snapshot'
    /\ snapshot'.timestamp > doc.timestamp
    /\ IF impl = "workbench"
         THEN get_object_by_uuid(doc, normalize_uuid(snapshot'.Products.uuid)) = 0
         ELSE UuidMapGet(doc, normalize_uuid(snapshot'.Products.uuid)) = 0

\* C14: when the root uuid of the new snapshot is not found among the
\* objects of the document, the update reports an error and leaves the
\* document as it was: no object removed, added, reparented or modified and
\* the recorded timestamp unchanged.
C14_RootMissingLeavesDocument ==
    [][ RootMissingUpdate
        => (/\ report'.kind = "Update Error"
            /\ doc'.objects = doc.objects
            /\ doc'.timestamp = doc.timestamp) ]_vars

\* the error is reported, as far as that goes
C14_RootMissingReported ==
    [][ RootMissingUpdate => report'.kind = "Update Error" ]_vars

\* the error has been reported on a document that lost an object in the run
C14_RemovedBeforeError ==
    /\ report.kind = "Update Error"
    /\ "Products" \in DOMAIN snapshot
    /\ impl = "workbench"
    /\ get_object_by_uuid(doc, normalize_uuid(snapshot.Products.uuid)) = 0
    /\ report.removed > 0
    /\ doc.timestamp = snapshot.timestamp

\* C16: when the fetched data holds no eligible root entity and no
\* selected_model_id is given, the run returns an explicit error result: not
\* a models list and not a Snapshot.
C16_NoRootIsError ==
    (Generated /\ query = JNull /\ failing = {} /\ EligibleRoots = <<>>) =>
       /\ "error" \in DOMAIN result
       /\ "models" \notin DOMAIN result
       /\ "Products" \notin DOMAIN result

\* such a run has returned an empty models list
C16_EmptyModelsList ==
    /\ Generated /\ query = JNull /\ failing = {} /\ EligibleRoots = <<>>
    /\ result = [models |-> <<>>]

\* the run has a root to build from: the selected id, or the only root
RootChosen ==
    /\ Generated /\ failing = {}
    /\ IF query = JNull THEN Len(EligibleRoots) = 1 ELSE ~SelectedMissing

\* the run was ended by the recursion limit (a cycle of parentIds)
RecursionCaught ==
    "traceback" \in DOMAIN result /\ result.traceback = "RecursionError"

\* C17: a per-entity data problem (a non-numeric sizeX, sizeY, sizeZ, radius,
\* posX or rotX, a pointer to an id that is not there) never aborts the run:
\* the value is defaulted or skipped and a Snapshot is returned.
C17_DataProblemKeepsSnapshot ==
    (RootChosen /\ ~RecursionCaught) =>
       DOMAIN result = {"Products", "Parts", "timestamp"}

\* a run on a category whose sizeX is no number has ended in the handler of
\* lines 518-523
C17_ValueErrorCaught ==
    /\ RootChosen
    /\ \E c \in 1..Len(categories) : \E p \in 1..Len(categories[c].properties) :
          /\ categories[c].properties[p].name = "sizeX"
          /\ ~IsNumeric(categories[c].properties[p].value)
    /\ result = Caught("ValueError")

\* C18: when authentication fails or one of the three fetches fails, the run
\* returns an explicit error result without raising, and no step of the tree
\* construction (entity index, Parts list, Products tree) has run before the
\* return: the result is the error of a fetch check, not the record of an
\* exception caught during the construction, a models list or a Snapshot.
C18_FetchFailureIsError ==
    (Generated /\ failing # {}) => DOMAIN result = {"error"}

\* the same for the fetches that are checked: entity types and entities
C18_CheckedFetchFailureIsError ==
    (Generated /\ failing # {} /\ failing # {"categories"}) =>
       DOMAIN result = {"error"}

\* the categories fetch has failed and the run has returned a models list
C18_ModelsWithoutCategories ==
    /\ Generated /\ failing = {"categories"}
    /\ DOMAIN result = {"models"}

\* the categories fetch has failed and the run has ended in the Parts list
C18_CaughtInConstruction ==
    /\ Generated /\ failing = {"categories"}
    /\ result = Caught("TypeError")

\* an id or a reference served as text instead of as a number
AsText(x) == IF x.t \in {"absent", "null"} THEN x ELSE Str(x)

AllAsText(refs) == [j \in 1..Len(refs) |-> AsText(refs[j])]

\* the fetched data with every id and every reference served as text
EntitiesAsText ==
    [i \in 1..Len(entities) |->
        [entities[i] EXCEPT !.id = AsText(@), !.parentId = AsText(@),
                            !.entityTypeId = AsText(@),
                            !.inheritsFrom = AllAsText(@)]]

CategoriesAsText ==
    [c \in 1..Len(categories) |->
        [categories[c] EXCEPT !.id = AsText(@), !.entityId = AsText(@),
                              !.inheritsFrom = AsText(@)]]

TypesAsText ==
    [j \in 1..Len(entity_types) |->
        [entity_types[j] EXCEPT !.id = AsText(@)]]

\* what the run returns on that data, at the same clock reading
ResultAsText ==
    generate_satellite_data(query, TypesAsText, EntitiesAsText,
                            CategoriesAsText, failing, result.timestamp)

\* C19: id matching does not depend on the raw type of an id: served with
\* numbers or with the equal strings, parent lookup, entity inheritsFrom
\* lookup, category attachment, category inheritsFrom lookup and the partUuid
\* base lookup match the same records, so the Snapshot is the same.
C19_SameSnapshotAsText ==
    (Generated /\ "Products" \in DOMAIN result) => result = ResultAsText

\* a run whose root inherits from an entity named by a number, and whose
\* Snapshot names the root's own id as partUuid where the text data name the
\* base
C19_NumberMissesBase ==
    /\ Generated /\ "Products" \in DOMAIN result
    /\ "Products" \in DOMAIN ResultAsText
    /\ result.Products.part # <<>>
    /\ result.Products.part # ResultAsText.Products.part

\* the fetched entity a node of the Snapshot was built from
SourceEntity(node) ==
    Normalized(entities)[FindEntity(Normalized(entities), node.uuid)]

\* what the claim asks of the part reference of a node built from entity e:
\* the first id of a non-empty inheritsFrom with the name of the entity of
\* that id, the entity's own id and name without inheritance
PartRefAsked(e, part) ==
    IF e.inheritsFrom = <<>>
      THEN part = [partUuid |-> Str(e.id), partName |-> e.name]
    ELSE /\ part.partUuid = Str(e.inheritsFrom[1])
         /\ LET b == FindEntity(entities, Str(e.inheritsFrom[1]))
            IN b # 0 => part.partName = entities[b].name

\* C20: every node of the Snapshot with a resolved visualization carries
\* partUuid and partName: of the first entity of its inheritsFrom list when
\* the list is not empty, its own uuid and name otherwise.
C20_PartRefOfBase ==
    (Generated /\ "Products" \in DOMAIN result) =>
       \A node \in NodesOf(result.Products) :
          node.part # <<>> => PartRefAsked(SourceEntity(node), node.part[1])

\* the same for the nodes whose base is named by a string and is among the
\* base entities of lines 472-476
C20_PartRefOfListedBase ==
    (Generated /\ "Products" \in DOMAIN result) =>
       \A node \in NodesOf(result.Products) :
          (/\ node.part # <<>>
           /\ SourceEntity(node).inheritsFrom # <<>>
              => BaseMapGet(BaseEntities(Normalized(entities)),
                            SourceEntity(node).inheritsFrom[1]) # <<>>)
          => PartRefAsked(SourceEntity(node), node.part[1])

\* a node inherits, by a string, from an entity that is there but is not a
\* ProductDefinition while other entities are, and names itself as its part
C20_BaseNotProductDefinition ==
    /\ Generated /\ "Products" \in DOMAIN result
    /\ \E node \in NodesOf(result.Products) :
          /\ node.part # <<>>
          /\ SourceEntity(node).inheritsFrom # <<>>
          /\ SourceEntity(node).inheritsFrom[1].t = "str"
          /\ FindEntity(entities, SourceEntity(node).inheritsFrom[1]) # 0
          /\ node.part[1].partUuid = node.uuid
          /\ node.uuid # SourceEntity(node).inheritsFrom[1]

\* a node names the first entity of its inheritsFrom list as its part
C20_BaseNamed ==
    /\ Generated /\ "Products" \in DOMAIN result
    /\ \E node \in NodesOf(result.Products) :
          /\ node.part # <<>>
          /\ SourceEntity(node).inheritsFrom # <<>>
          /\ node.part[1].partUuid = SourceEntity(node).inheritsFrom[1]
          /\ node.part[1].partUuid # node.uuid

\* the base entities of the fetched data (lines 472-475)
FetchedBases == BaseEntities(Normalized(entities))

\* the resolved shape of an entity is non-empty and not NONE
ShapeResolved(vis) ==
    /\ vis.st = "ok"
    /\ "shape" \in DOMAIN vis.props
    /\ ShapeText(vis.props["shape"]) \notin {"", "NONE"}

HasShape(e) ==
    ShapeResolved(extract_visualization(e.id, categories, Normalized(entities)))

PartsOf(uuid) == { j \in 1..Len(result.Parts) : result.Parts[j].uuid = uuid }

\* C21: the Parts list of a Snapshot holds exactly one PartDefinition for
\* each base entity whose resolved shape is non-empty and not NONE, none for
\* any other entity, and no two entries share a uuid.
C21_OnePartPerShapedBase ==
    (Generated /\ "Parts" \in DOMAIN result) =>
       /\ \A i \in 1..Len(FetchedBases) :
             Cardinality(PartsOf(FetchedBases[i].id))
                = IF HasShape(FetchedBases[i]) THEN 1 ELSE 0
       /\ \A j \in 1..Len(result.Parts) :
             \E i \in 1..Len(FetchedBases) :
                FetchedBases[i].id = result.Parts[j].uuid

\* a Snapshot with the parts of two shaped base entities and none for a
\* third base entity
C21_Witness ==
    /\ Generated /\ "Parts" \in DOMAIN result
    /\ Len(result.Parts) = 2
    /\ Len(FetchedBases) = 3
    /\ result.Parts[1].uuid # result.Parts[2].uuid

\* a Snapshot without a part for a base entity whose shape is "None"
C21_NoneShapeSkipped ==
    /\ Generated /\ "Parts" \in DOMAIN result
    /\ \E i \in 1..Len(FetchedBases) :
          /\ extract_visualization(FetchedBases[i].id, categories,
                                   Normalized(entities)).st = "ok"
          /\ ~HasShape(FetchedBases[i])
          /\ PartsOf(FetchedBases[i].id) = {}

\* the resolved properties of the entity a part was built from
PartSource(part) ==
    extract_visualization(part.uuid, categories, Normalized(entities)).props

\* the shape of part is S for a resolved S among shapes, and BOX with the
\* lengths of sizeX, sizeY, sizeZ for every other S
ShapeKept(part, vis, shapes) ==
    IF ShapeText(vis["shape"]) \in shapes
      THEN part.shape = ShapeText(vis["shape"])
    ELSE /\ part.shape = "BOX"
         /\ part.lengthX = FloatGet(vis, "sizeX", 100)[1]
         /\ part.lengthY = FloatGet(vis, "sizeY", 100)[1]
         /\ part.lengthZ = FloatGet(vis, "sizeZ", 100)[1]

\* C22: for every resolved shape S (trimmed, upper-cased, non-empty, not
\* NONE) the shape of the PartDefinition is S when S is BOX, CYLINDER, SPHERE
\* or CONE, and BOX with lengthX/Y/Z from sizeX/Y/Z for every other value.
C22_ShapeKept ==
    (Generated /\ "Parts" \in DOMAIN result) =>
       \A j \in 1..Len(result.Parts) :
          ShapeKept(result.Parts[j], PartSource(result.Parts[j]),
                    {"BOX", "CYLINDER", "SPHERE", "CONE"})

\* the same with the shapes get_part_data has a branch for
C22_BranchedShapeKept ==
    (Generated /\ "Parts" \in DOMAIN result) =>
       \A j \in 1..Len(result.Parts) :
          ShapeKept(result.Parts[j], PartSource(result.Parts[j]),
                    {"BOX", "CYLINDER", "SPHERE"})

\* a Snapshot whose Parts list turns a cone into a box
C22_ConeBecomesBox ==
    /\ Generated /\ "Parts" \in DOMAIN result
    /\ \E j \in 1..Len(result.Parts) :
          /\ ShapeText(PartSource(result.Parts[j])["shape"]) = "CONE"
          /\ result.Parts[j].shape = "BOX"

\* the nodes of the Products tree whose partUuid is the uuid of no entry of
\* the Parts list
DanglingParts ==
    { node \in NodesOf(result.Products) :
        /\ node.part # <<>>
        /\ PartsOf(node.part[1].partUuid) = {} }

\* C30: in every Snapshot returned by generate_satellite_data each partUuid
\* carried by a node of the Products tree is the uuid of an entry of the
\* Parts list, so that no partUuid-bearing leaf is without a PartDefinition
\* to be built from.
C30_PartUuidInParts ==
    (Generated /\ "Parts" \in DOMAIN result) => DanglingParts = {}

\* a Snapshot with a leaf whose partUuid is its own uuid, the entity having
\* a visualization without a shape, and no PartDefinition of that uuid
C30_LeafWithoutPart ==
    /\ Generated /\ "Parts" \in DOMAIN result
    /\ \E node \in DanglingParts :
          /\ node.children = <<>>
          /\ node.part[1].partUuid = node.uuid
          /\ ~HasShape(SourceEntity(node))

\* a partUuid is dangling only on a node whose PartDefinition
\* get_part_data does not emit: the referenced entity is no base entity or
\* has no shape
C30_DanglingOnlyWithoutShape ==
    (Generated /\ "Parts" \in DOMAIN result) =>
       \A node \in DanglingParts :
          \A i \in 1..Len(FetchedBases) :
             FetchedBases[i].id = node.part[1].partUuid
                => ~HasShape(FetchedBases[i])

-----------------------------------------------------------------------------
(* Claims on the authentication run                                        *)

\* C15: in every sequence of get_auth_session calls the session is created
\* on the first call and reused while authentication succeeded; a call after
\* a failed authentication performs a new login attempt, and no call returns
\* the cached session of a failed login.
C15_SessionReuse ==
    [][ \A m \in AuthModules :
          (logins'.module = m /\ logins' # logins) =>
             /\ logins.latest[m] = "none" => logins'.posted
             /\ logins.latest[m] = "ok" =>
                   /\ ~logins'.posted
                   /\ logins'.returned = API_SESSION[m]
             /\ logins.latest[m] = "failed" => logins'.posted
             /\ logins'.returned # None => logins'.returned.token ]_vars

\* a module other than the workbench importer has returned the session of
\* a failed login, without a new attempt
C15_FailedSessionReturned ==
    /\ logins.module # ""
    /\ logins.latest[logins.module] = "failed"
    /\ ~logins.posted
    /\ logins.returned # None /\ ~logins.returned.token

\* the workbench importer has logged in anew after a failed login
C15_WorkbenchRetried ==
    /\ logins.module = "workbench" /\ logins.posted
    /\ logins.returned # None /\ logins.returned.token
    /\ logins.made > 1

\* the factor between a length of the snapshot (metres) and the length
\* property of a part: workbench lines 280-282 and freecad lines 362-364
LengthUnit == IF impl = "workbench" THEN 1000 ELSE 1

\* the part objects of the document built from a node
PartObjectsOf(node) ==
    { i \in 1..Len(doc.objects) :
        /\ doc.objects[i].kind = "Part::FeaturePython"
        /\ doc.objects[i].uuid = node.uuid }

\* the last command has imported or updated from the snapshot
Materialized ==
    /\ "Products" \in DOMAIN snapshot
    /\ report.kind \in {"Import Successful", "Update Successful"}

\* LengthX of a box is the node's sizeX when the node carries one, and the
\* lengthX of the referenced PartDefinition otherwise
BoxLengthAsked(obj, node, part) ==
    obj.dims["LengthX"] =
       LengthUnit * (IF "sizeX" \in DOMAIN node.attrs
                       THEN Float(node.attrs["sizeX"])[1] ELSE part.lengthX)

\* C23: when a node carries a shape-dimension override (sizeX, sizeY, sizeZ
\* or radius) and references a PartDefinition, the dimension of the
\* materialized part is the override; a dimension without an override takes
\* the value of the PartDefinition.
C23_OverrideApplied ==
    Materialized =>
       \A node \in NodesOf(snapshot.Products) :
          \A i \in PartObjectsOf(node) :
             LET part == PartsGet(snapshot.Parts, FALSE, node.part[1].partUuid)
             IN (part # <<>> /\ doc.objects[i].shape = "BOX")
                   => BoxLengthAsked(doc.objects[i], node, part[1])

\* a box has been materialized with the lengthX of its PartDefinition
\* although its node carries another sizeX
C23_OverrideIgnored ==
    /\ Materialized
    /\ \E node \in NodesOf(snapshot.Products) :
          \E i \in PartObjectsOf(node) :
             LET part == PartsGet(snapshot.Parts, FALSE, node.part[1].partUuid)
             IN /\ part # <<>> /\ doc.objects[i].shape = "BOX"
                /\ "sizeX" \in DOMAIN node.attrs
                /\ Float(node.attrs["sizeX"])[1] # part[1].lengthX
                /\ doc.objects[i].dims["LengthX"] = LengthUnit * part[1].lengthX

\* the update command has run update_satellite_document to its success
\* message
UpdateSucceeds ==
    /\ IsUpdateCommand
    /\ "Products" \in DOMAIN snapshot'
    /\ report'.kind = "Update Successful"

\* the uuids present in the document before the call and absent from the
\* node ids of the new snapshot
GoneUuids == ExistingUuids(doc) \ IndexNodes(snapshot'.Products)

\* C24: after update_satellite_document succeeds, every object whose uuid
\* was present before the call and is absent from the node ids of the new
\* snapshot has been deleted from the document, and removed is the number of
\* such uuids.
C24_GoneObjectsRemoved ==
    [][ UpdateSucceeds
        => (/\ ExistingUuids(doc') \cap GoneUuids = {}
            /\ report'.removed = Cardinality(GoneUuids)) ]_vars

\* the count alone
C24_RemovedCounted ==
    [][ UpdateSucceeds => report'.removed = Cardinality(GoneUuids) ]_vars

\* a successful update of the freecad importer has left an object under a
\* uuid that the snapshot lacks
C24_AssemblyLeftBehind ==
    /\ impl = "freecad"
    /\ Materialized /\ report.kind = "Update Successful"
    /\ report.removed > 0
    /\ ExistingUuids(doc) \ IndexNodes(snapshot.Products) # {}

\* the nodes of the new snapshot whose uuid no object of the document has
NewNodes ==
    { node \in NodesOf(snapshot'.Products) :
        normalize_uuid(node.uuid) \notin ExistingUuids(doc) }

\* the uuids of the nodes a node is a child of
ParentUuids(tree, node) ==
    { p.uuid : p \in { q \in NodesOf(tree) :
                         \E j \in 1..Len(q.children) : q.children[j] = node } }

OldOids == { doc.objects[i].oid : i \in 1..Len(doc.objects) }

\* the objects of the document after the call that were constructed for the
\* node: not there before, carrying its uuid, a part for a partUuid-bearing
\* leaf and an assembly otherwise
ConstructedFor(node) ==
    { i \in 1..Len(doc'.objects) :
        /\ doc'.objects[i].oid \notin OldOids
        /\ doc'.objects[i].uuid = node.uuid
        /\ doc'.objects[i].kind = IF IsPartLeaf(node) THEN "Part::FeaturePython"
                                  ELSE "App::Part" }

\* object i is in the group of an object that carries one of the uuids
AttachedUnder(i, uuids) ==
    \E k \in 1..Len(doc'.objects) :
       /\ doc'.objects[k].oid = doc'.objects[i].parent
       /\ doc'.objects[k].uuid \in uuids

\* C25: after update_satellite_document succeeds, every uuid of the new
\* snapshot that the document did not have has a newly constructed object (a
\* part for a partUuid-bearing leaf, an assembly otherwise) attached under
\* the object of its parent node, and added is the number of such uuids.
C25_NewNodesAdded ==
    [][ UpdateSucceeds
        => (/\ \A node \in NewNodes :
                  \E i \in ConstructedFor(node) :
                     AttachedUnder(i, ParentUuids(snapshot'.Products, node))
            /\ report'.added = Cardinality(NewNodes)) ]_vars

\* the same for the workbench importer and the new nodes that are not
\* leaves whose partUuid is missing from Parts
C25_NewNodesBuiltW ==
    [][ (UpdateSucceeds /\ impl = "workbench")
        => \A node \in NewNodes :
              (IsPartLeaf(node) =>
                  PartsGet(snapshot'.Parts, TRUE,
                           normalize_uuid(node.part[1].partUuid)) # <<>>)
              => \E i \in ConstructedFor(node) :
                    AttachedUnder(i, ParentUuids(snapshot'.Products, node)) ]_vars

\* the count alone, for the same nodes of the workbench importer
C25_NewNodesCountedW ==
    [][ (/\ UpdateSucceeds /\ impl = "workbench"
         /\ \A node \in NewNodes :
               IsPartLeaf(node) =>
                  PartsGet(snapshot'.Parts, TRUE,
                           normalize_uuid(node.part[1].partUuid)) # <<>>)
        => report'.added = Cardinality(NewNodes) ]_vars

\* the freecad importer has added a part for a node below the root and
\* left it in no group
C25_PartInNoGroup ==
    /\ impl = "freecad"
    /\ Materialized /\ report.kind = "Update Successful"
    /\ report.added > 0
    /\ \E i \in 1..Len(doc.objects) :
          /\ doc.objects[i].kind = "Part::FeaturePython"
          /\ doc.objects[i].parent = 0
          /\ doc.objects[i].oid = doc.nextId - 1
          /\ doc.objects[i].uuid # snapshot.Products.uuid


\* the part nodes of the new snapshot whose uuid the document has, with a
\* PartDefinition in Parts
KeptPartNodes ==
    { node \in NodesOf(snapshot'.Products) :
        /\ IsPartLeaf(node)
        /\ normalize_uuid(node.uuid) \in ExistingUuids(doc)
        /\ PartsGet(snapshot'.Parts, TRUE,
                    normalize_uuid(node.part[1].partUuid)) # <<>> }

NewPartOf(node) ==
    PartsGet(snapshot'.Parts, TRUE, normalize_uuid(node.part[1].partUuid))[1]

\* the placement of an object is the one the importer computes from the
\* node: the whole of it in the workbench importer, and in the freecad
\* importer, which multiplies the placements from the root down on import,
\* its last factors
PlacedAsAsked(placement, node) ==
    IF impl = "workbench" THEN placement = create_local_placement(node)
    ELSE LET asked == create_placement(node)
         IN /\ Len(placement) >= Len(asked)
            /\ SubSeq(placement, Len(placement) - Len(asked) + 1,
                      Len(placement)) = asked

\* the part object shows the node: its own placement, the colour of its
\* PartDefinition and the dimension of its shape
Shows(obj, node, part) ==
    /\ PlacedAsAsked(obj.placement, node)
    /\ obj.color = part.color
    /\ part.shape = "BOX" =>
          /\ "LengthX" \in DOMAIN obj.dims
          /\ obj.dims["LengthX"] = LengthUnit * part.lengthX
    /\ part.shape \in {"SPHERE", "CYLINDER"} =>
          /\ "Radius" \in DOMAIN obj.dims
          /\ obj.dims["Radius"] = LengthUnit * part.radius

\* the part objects under the uuid of a node in a document
PartObjectsIn(d, node) ==
    { i \in 1..Len(d.objects) :
        /\ d.objects[i].kind = "Part::FeaturePython"
        /\ normalize_uuid(d.objects[i].uuid) = normalize_uuid(node.uuid) }

\* the nodes with a part object that does not show them before the call
DifferingNodes ==
    { node \in KeptPartNodes :
        \E i \in PartObjectsIn(doc, node) :
           ~Shows(doc.objects[i], node, NewPartOf(node)) }

\* an object without the group it is in
Properties(obj) == [obj EXCEPT !.parent = 0]

\* the part objects of the nodes show them after the call, the nodes that
\* differed are in updated, and the objects of the others are as before
AppliedAndCounted(nodes) ==
    /\ \A node \in nodes :
          \A i \in PartObjectsIn(doc', node) :
             Shows(doc'.objects[i], node, NewPartOf(node))
    /\ report'.updated >= Cardinality(nodes \cap DifferingNodes)
    /\ \A node \in nodes \ DifferingNodes :
          \A i \in PartObjectsIn(doc, node) :
             \E k \in PartObjectsIn(doc', node) :
                Properties(doc'.objects[k]) = Properties(doc.objects[i])

\* C26: after a successful update, every node whose uuid the document and
\* the new snapshot share has the placement, the colour and the shape
\* dimension (of any shape type) of the new snapshot on its object, a node
\* with a differing field is counted once in updated however many fields
\* differ, and a node without a differing field is not counted and its
\* object is not modified.
C26_DifferencesApplied ==
    [][ UpdateSucceeds => AppliedAndCounted(KeptPartNodes) ]_vars

\* the same for the boxes of the workbench importer
C26_BoxesAppliedW ==
    [][ (UpdateSucceeds /\ impl = "workbench")
        => AppliedAndCounted({ node \in KeptPartNodes :
                                 NewPartOf(node).shape = "BOX" }) ]_vars

\* no more nodes are counted than there are among those the document and
\* the snapshot share
C26_CountedOnce ==
    [][ (UpdateSucceeds /\ impl = "workbench")
        => report'.updated <=
              Cardinality({ node \in NodesOf(snapshot'.Products) :
                  normalize_uuid(node.uuid) \in ExistingUuids(doc) }) ]_vars

\* the workbench importer has updated to a sphere of another radius and the
\* object keeps the radius it was imported with
C26_RadiusKept ==
    /\ impl = "workbench"
    /\ Materialized /\ report.kind = "Update Successful"
    /\ \E node \in NodesOf(snapshot.Products) :
          \E i \in PartObjectsOf(node) :
             LET part == PartsGet(snapshot.Parts, FALSE, node.part[1].partUuid)
             IN /\ part # <<>> /\ part[1].shape = "SPHERE"
                /\ doc.objects[i].shape = "SPHERE"
                /\ doc.objects[i].dims["Radius"] # 1000 * part[1].radius

\* the freecad importer has updated to a node at another position and the
\* object keeps the placement it was imported with
C26_PlacementKept ==
    /\ impl = "freecad"
    /\ Materialized /\ report.kind = "Update Successful"
    /\ \E node \in NodesOf(snapshot.Products) :
          \E i \in PartObjectsOf(node) :
             /\ doc.objects[i].placement # <<>>
             /\ ~PlacedAsAsked(doc.objects[i].placement, node)


\* the nodes below the root of the new snapshot whose uuid the document has
KeptNodes ==
    { node \in NodesOf(snapshot'.Products) :
        /\ node # snapshot'.Products
        /\ normalize_uuid(node.uuid) \in ExistingUuids(doc) }

ObjectsIn(d, node) ==
    { i \in 1..Len(d.objects) :
        normalize_uuid(d.objects[i].uuid) = normalize_uuid(node.uuid) }

\* the uuid of the group object i of a document is in, as a set
GroupUuid(d, i) ==
    { normalize_uuid(d.objects[k].uuid) :
        k \in { j \in 1..Len(d.objects) :
                  d.objects[j].oid = d.objects[i].parent } }

\* the objects of the node are where the snapshot has the node: one of them
\* in the group of the node's parent, and the others there or in the group
\* of an object of the node itself (the freecad importer keeps the part of a
\* node in the node's own assembly)
AttachedAsAsked(d, node, tree) ==
    LET asked == { normalize_uuid(u) : u \in ParentUuids(tree, node) }
    IN /\ \E i \in ObjectsIn(d, node) : GroupUuid(d, i) \cap asked # {}
       /\ \A i \in ObjectsIn(d, node) :
             GroupUuid(d, i) \cap (asked \cup {normalize_uuid(node.uuid)}) # {}

\* the nodes whose objects are all in a group and that the new snapshot has
\* under another parent than the document
MovedNodes ==
    { node \in KeptNodes :
        /\ \A i \in ObjectsIn(doc, node) : doc.objects[i].parent # 0
        /\ ~AttachedAsAsked(doc, node, snapshot'.Products) }

\* the nodes with an object that the call has changed otherwise than in its
\* group
ChangedNodes ==
    { node \in KeptNodes :
        \E i \in ObjectsIn(doc, node) :
           \A k \in 1..Len(doc'.objects) :
              doc'.objects[k].oid = doc.objects[i].oid
                 => Properties(doc'.objects[k]) # Properties(doc.objects[i]) }

\* the moved nodes are where the snapshot has them, each is counted once in
\* moved, and updated counts no node that has only been moved
MovedAndCounted ==
    /\ \A node \in MovedNodes :
          AttachedAsAsked(doc', node, snapshot'.Products)
    /\ report'.moved = Cardinality(MovedNodes)
    /\ report'.updated <= Cardinality(ChangedNodes)

\* C27: after a successful update, every object whose uuid is in both states
\* and whose parent in the new snapshot is not the parent it has in the
\* document is in the group of the new parent, moved counts each such node
\* once, and updated counts a node only if one of its properties changed as
\* well.
C27_MovedToNewParent ==
    [][ UpdateSucceeds => MovedAndCounted ]_vars

\* the same for the workbench importer
C27_MovedToNewParentW ==
    [][ (UpdateSucceeds /\ impl = "workbench") => MovedAndCounted ]_vars

\* the workbench importer has moved one node and changed nothing else
C27_PureMoveW ==
    /\ impl = "workbench"
    /\ Materialized /\ report.kind = "Update Successful"
    /\ report.moved = 1 /\ report.updated = 0 /\ report.added = 0

\* the freecad importer has updated to a snapshot with a node under another
\* parent and has left its objects where they were, with moved = 0
C27_LeftInOldGroup ==
    /\ impl = "freecad"
    /\ Materialized /\ report.kind = "Update Successful"
    /\ report.moved = 0 /\ report.added = 0
    /\ \E node \in NodesOf(snapshot.Products) :
          /\ node # snapshot.Products
          /\ PartObjectsOf(node) # {}
          /\ \A i \in ObjectsIn(doc, node) : doc.objects[i].parent # 0
          /\ ~AttachedAsAsked(doc, node, snapshot.Products)


\* the workbench importer has imported a snapshot and built no object for a
\* leaf whose partUuid is in no entry of Parts
C30_LeafDropped ==
    /\ impl = "workbench"
    /\ Materialized /\ report.kind = "Import Successful"
    /\ \E node \in NodesOf(snapshot.Products) :
          /\ IsPartLeaf(node)
          /\ PartsGet(snapshot.Parts, FALSE, node.part[1].partUuid) = <<>>
          /\ \A i \in 1..Len(doc.objects) : doc.objects[i].uuid # node.uuid

====
